---- MODULE Spec2Model ----
(***************************************************************************)
(* Multi-client attribution engine of activitywatch-mcp.                   *)
(*                                                                         *)
(*   update-june-with-clients.py   detect_client_for_work,                 *)
(*                                 update_timesheet_with_multi_client      *)
(*                                                                         *)
(* Python values are modelled as follows.                                  *)
(*   str    a sequence of one-character strings, so that lower(), the      *)
(*          substring test `in` and startswith() are computed character    *)
(*          by character.  Client ids, tags and categories are only ever   *)
(*          compared for equality and are TLA+ strings.                    *)
(*   dict   a function whose DOMAIN is the set of keys that are present;   *)
(*          d.get(k, default) is Get(d, k, default).                       *)
(*   None   the empty sequence <<>>; a value v that is present where None  *)
(*          is possible is <<v>>.                                          *)
(*   hours  round(x, 1) is the double nearest to a tenth and is held as    *)
(*          the integer number of tenths (0.3 h is 3).  A sum of such      *)
(*          floats need not be the double nearest to a tenth; it is held   *)
(*          as [tenths |-> t, excess |-> x], the double that lies x units  *)
(*          of 2^-56 above the double nearest to t / 10 (0.1 + 0.2 is      *)
(*          [tenths |-> 3, excess |-> 4], 0.30000000000000004).            *)
(***************************************************************************)
EXTENDS Integers, Sequences, FiniteSets, TLC

VARIABLES
    config,     \* CLIENT_CONFIG, the rule store loaded from multi-client-config.json
    data,       \* the daily record handed to update_timesheet_with_multi_client
    input,      \* the record as it was when the latest call started
    locals,     \* client_minutes / client_hours of the latest call
    runs,       \* number of completed update_timesheet_with_multi_client calls
    call,       \* arguments and result of the latest detect_client_for_work call,
                \* or the latest menu choice of the configuration manager
    file        \* content of multi-client-config.json, None while it does not exist

vars == <<config, data, input, locals, runs, call, file>>

(***************************************************************************)
(* Python built-ins                                                        *)
(***************************************************************************)

None == <<>>

Some(v) == <<v>>

Range(s) == {s[i] : i \in DOMAIN s}

\* dict.get(key, default)
Get(d, key, default) == IF key \in DOMAIN d THEN d[key] ELSE default

\* d[key] = value
Put(d, key, value) == (key :> value) @@ d

\* A string of a module holds the characters up to U+00FF other than the
\* backtick, and beyond them the characters of the basic plane whose code
\* point ends in a byte from 80 to FF.  A character that such a string cannot
\* hold, where an operation yields one, is written by its name ("U+0253").
\* The tables below are those of Unicode 14.0.0, the data of Python 3.11.

\* every character a string holds whose lower-case form is another character,
\* with that form
LowerPairs ==
    {<<"A", "a">>, <<"B", "b">>, <<"C", "c">>, <<"D", "d">>, <<"E", "e">>,
     <<"F", "f">>, <<"G", "g">>, <<"H", "h">>, <<"I", "i">>, <<"J", "j">>,
     <<"K", "k">>, <<"L", "l">>, <<"M", "m">>, <<"N", "n">>, <<"O", "o">>,
     <<"P", "p">>, <<"Q", "q">>, <<"R", "r">>, <<"S", "s">>, <<"T", "t">>,
     <<"U", "u">>, <<"V", "v">>, <<"W", "w">>, <<"X", "x">>, <<"Y", "y">>,
     <<"Z", "z">>, <<"À", "à">>, <<"Á", "á">>, <<"Â", "â">>, <<"Ã", "ã">>,
     <<"Ä", "ä">>, <<"Å", "å">>, <<"Æ", "æ">>, <<"Ç", "ç">>, <<"È", "è">>,
     <<"É", "é">>, <<"Ê", "ê">>, <<"Ë", "ë">>, <<"Ì", "ì">>, <<"Í", "í">>,
     <<"Î", "î">>, <<"Ï", "ï">>, <<"Ð", "ð">>, <<"Ñ", "ñ">>, <<"Ò", "ò">>,
     <<"Ó", "ó">>, <<"Ô", "ô">>, <<"Õ", "õ">>, <<"Ö", "ö">>, <<"Ø", "ø">>,
     <<"Ù", "ù">>, <<"Ú", "ú">>, <<"Û", "û">>, <<"Ü", "ü">>, <<"Ý", "ý">>,
     <<"Þ", "þ">>, <<"Ɓ", "U+0253">>, <<"Ƃ", "ƃ">>, <<"Ƅ", "ƅ">>, <<"Ɔ", "U+0254">>,
     <<"Ƈ", "ƈ">>, <<"Ɖ", "U+0256">>, <<"Ɗ", "U+0257">>, <<"Ƌ", "ƌ">>, <<"Ǝ", "ǝ">>,
     <<"Ə", "U+0259">>, <<"Ɛ", "U+025B">>, <<"Ƒ", "ƒ">>, <<"Ɠ", "U+0260">>, <<"Ɣ", "U+0263">>,
     <<"Ɩ", "U+0269">>, <<"Ɨ", "U+0268">>, <<"Ƙ", "ƙ">>, <<"Ɯ", "U+026F">>, <<"Ɲ", "U+0272">>,
     <<"Ɵ", "U+0275">>, <<"Ơ", "ơ">>, <<"Ƣ", "ƣ">>, <<"Ƥ", "ƥ">>, <<"Ʀ", "ʀ">>,
     <<"Ƨ", "ƨ">>, <<"Ʃ", "ʃ">>, <<"Ƭ", "ƭ">>, <<"Ʈ", "ʈ">>, <<"Ư", "ư">>,
     <<"Ʊ", "ʊ">>, <<"Ʋ", "ʋ">>, <<"Ƴ", "ƴ">>, <<"Ƶ", "ƶ">>, <<"Ʒ", "ʒ">>,
     <<"Ƹ", "ƹ">>, <<"Ƽ", "ƽ">>, <<"Ǆ", "ǆ">>, <<"ǅ", "ǆ">>, <<"Ǉ", "ǉ">>,
     <<"ǈ", "ǉ">>, <<"Ǌ", "ǌ">>, <<"ǋ", "ǌ">>, <<"Ǎ", "ǎ">>, <<"Ǐ", "ǐ">>,
     <<"Ǒ", "ǒ">>, <<"Ǔ", "ǔ">>, <<"Ǖ", "ǖ">>, <<"Ǘ", "ǘ">>, <<"Ǚ", "ǚ">>,
     <<"Ǜ", "ǜ">>, <<"Ǟ", "ǟ">>, <<"Ǡ", "ǡ">>, <<"Ǣ", "ǣ">>, <<"Ǥ", "ǥ">>,
     <<"Ǧ", "ǧ">>, <<"Ǩ", "ǩ">>, <<"Ǫ", "ǫ">>, <<"Ǭ", "ǭ">>, <<"Ǯ", "ǯ">>,
     <<"Ǳ", "ǳ">>, <<"ǲ", "ǳ">>, <<"Ǵ", "ǵ">>, <<"Ƕ", "ƕ">>, <<"Ƿ", "ƿ">>,
     <<"Ǹ", "ǹ">>, <<"Ǻ", "ǻ">>, <<"Ǽ", "ǽ">>, <<"Ǿ", "ǿ">>, <<"Ά", "ά">>,
     <<"Έ", "έ">>, <<"Ή", "ή">>, <<"Ί", "ί">>, <<"Ό", "ό">>, <<"Ύ", "ύ">>,
     <<"Ώ", "ώ">>, <<"Α", "α">>, <<"Β", "β">>, <<"Γ", "γ">>, <<"Δ", "δ">>,
     <<"Ε", "ε">>, <<"Ζ", "ζ">>, <<"Η", "η">>, <<"Θ", "θ">>, <<"Ι", "ι">>,
     <<"Κ", "κ">>, <<"Λ", "λ">>, <<"Μ", "μ">>, <<"Ν", "ν">>, <<"Ξ", "ξ">>,
     <<"Ο", "ο">>, <<"Π", "π">>, <<"Ρ", "ρ">>, <<"Σ", "σ">>, <<"Τ", "τ">>,
     <<"Υ", "υ">>, <<"Φ", "φ">>, <<"Χ", "χ">>, <<"Ψ", "ψ">>, <<"Ω", "ω">>,
     <<"Ϊ", "ϊ">>, <<"Ϋ", "ϋ">>, <<"Ϗ", "ϗ">>, <<"Ϙ", "ϙ">>, <<"Ϛ", "ϛ">>,
     <<"Ϝ", "ϝ">>, <<"Ϟ", "ϟ">>, <<"Ϡ", "ϡ">>, <<"Ϣ", "ϣ">>, <<"Ϥ", "ϥ">>,
     <<"Ϧ", "ϧ">>, <<"Ϩ", "ϩ">>, <<"Ϫ", "ϫ">>, <<"Ϭ", "ϭ">>, <<"Ϯ", "ϯ">>,
     <<"ϴ", "θ">>, <<"Ϸ", "ϸ">>, <<"Ϲ", "ϲ">>, <<"Ϻ", "ϻ">>, <<"Ͻ", "U+037B">>,
     <<"Ͼ", "U+037C">>, <<"Ͽ", "U+037D">>, <<"Ҁ", "ҁ">>, <<"Ҋ", "ҋ">>, <<"Ҍ", "ҍ">>,
     <<"Ҏ", "ҏ">>, <<"Ґ", "ґ">>, <<"Ғ", "ғ">>, <<"Ҕ", "ҕ">>, <<"Җ", "җ">>,
     <<"Ҙ", "ҙ">>, <<"Қ", "қ">>, <<"Ҝ", "ҝ">>, <<"Ҟ", "ҟ">>, <<"Ҡ", "ҡ">>,
     <<"Ң", "ң">>, <<"Ҥ", "ҥ">>, <<"Ҧ", "ҧ">>, <<"Ҩ", "ҩ">>, <<"Ҫ", "ҫ">>,
     <<"Ҭ", "ҭ">>, <<"Ү", "ү">>, <<"Ұ", "ұ">>, <<"Ҳ", "ҳ">>, <<"Ҵ", "ҵ">>,
     <<"Ҷ", "ҷ">>, <<"Ҹ", "ҹ">>, <<"Һ", "һ">>, <<"Ҽ", "ҽ">>, <<"Ҿ", "ҿ">>,
     <<"Ӏ", "ӏ">>, <<"Ӂ", "ӂ">>, <<"Ӄ", "ӄ">>, <<"Ӆ", "ӆ">>, <<"Ӈ", "ӈ">>,
     <<"Ӊ", "ӊ">>, <<"Ӌ", "ӌ">>, <<"Ӎ", "ӎ">>, <<"Ӑ", "ӑ">>, <<"Ӓ", "ӓ">>,
     <<"Ӕ", "ӕ">>, <<"Ӗ", "ӗ">>, <<"Ә", "ә">>, <<"Ӛ", "ӛ">>, <<"Ӝ", "ӝ">>,
     <<"Ӟ", "ӟ">>, <<"Ӡ", "ӡ">>, <<"Ӣ", "ӣ">>, <<"Ӥ", "ӥ">>, <<"Ӧ", "ӧ">>,
     <<"Ө", "ө">>, <<"Ӫ", "ӫ">>, <<"Ӭ", "ӭ">>, <<"Ӯ", "ӯ">>, <<"Ӱ", "ӱ">>,
     <<"Ӳ", "ӳ">>, <<"Ӵ", "ӵ">>, <<"Ӷ", "ӷ">>, <<"Ӹ", "ӹ">>, <<"Ӻ", "ӻ">>,
     <<"Ӽ", "ӽ">>, <<"Ӿ", "ӿ">>, <<"Ⴀ", "U+2D00">>, <<"Ⴁ", "U+2D01">>, <<"Ⴂ", "U+2D02">>,
     <<"Ⴃ", "U+2D03">>, <<"Ⴄ", "U+2D04">>, <<"Ⴅ", "U+2D05">>, <<"Ⴆ", "U+2D06">>, <<"Ⴇ", "U+2D07">>,
     <<"Ⴈ", "U+2D08">>, <<"Ⴉ", "U+2D09">>, <<"Ⴊ", "U+2D0A">>, <<"Ⴋ", "U+2D0B">>, <<"Ⴌ", "U+2D0C">>,
     <<"Ⴍ", "U+2D0D">>, <<"Ⴎ", "U+2D0E">>, <<"Ⴏ", "U+2D0F">>, <<"Ⴐ", "U+2D10">>, <<"Ⴑ", "U+2D11">>,
     <<"Ⴒ", "U+2D12">>, <<"Ⴓ", "U+2D13">>, <<"Ⴔ", "U+2D14">>, <<"Ⴕ", "U+2D15">>, <<"Ⴖ", "U+2D16">>,
     <<"Ⴗ", "U+2D17">>, <<"Ⴘ", "U+2D18">>, <<"Ⴙ", "U+2D19">>, <<"Ⴚ", "U+2D1A">>, <<"Ⴛ", "U+2D1B">>,
     <<"Ⴜ", "U+2D1C">>, <<"Ⴝ", "U+2D1D">>, <<"Ⴞ", "U+2D1E">>, <<"Ⴟ", "U+2D1F">>, <<"Ⴠ", "U+2D20">>,
     <<"Ⴡ", "U+2D21">>, <<"Ⴢ", "U+2D22">>, <<"Ⴣ", "U+2D23">>, <<"Ⴤ", "U+2D24">>, <<"Ⴥ", "U+2D25">>,
     <<"Ⴧ", "U+2D27">>, <<"Ⴭ", "U+2D2D">>, <<"Ꭰ", "U+AB70">>, <<"Ꭱ", "U+AB71">>, <<"Ꭲ", "U+AB72">>,
     <<"Ꭳ", "U+AB73">>, <<"Ꭴ", "U+AB74">>, <<"Ꭵ", "U+AB75">>, <<"Ꭶ", "U+AB76">>, <<"Ꭷ", "U+AB77">>,
     <<"Ꭸ", "U+AB78">>, <<"Ꭹ", "U+AB79">>, <<"Ꭺ", "U+AB7A">>, <<"Ꭻ", "U+AB7B">>, <<"Ꭼ", "U+AB7C">>,
     <<"Ꭽ", "U+AB7D">>, <<"Ꭾ", "U+AB7E">>, <<"Ꭿ", "U+AB7F">>, <<"Ꮀ", "ꮀ">>, <<"Ꮁ", "ꮁ">>,
     <<"Ꮂ", "ꮂ">>, <<"Ꮃ", "ꮃ">>, <<"Ꮄ", "ꮄ">>, <<"Ꮅ", "ꮅ">>, <<"Ꮆ", "ꮆ">>,
     <<"Ꮇ", "ꮇ">>, <<"Ꮈ", "ꮈ">>, <<"Ꮉ", "ꮉ">>, <<"Ꮊ", "ꮊ">>, <<"Ꮋ", "ꮋ">>,
     <<"Ꮌ", "ꮌ">>, <<"Ꮍ", "ꮍ">>, <<"Ꮎ", "ꮎ">>, <<"Ꮏ", "ꮏ">>, <<"Ꮐ", "ꮐ">>,
     <<"Ꮑ", "ꮑ">>, <<"Ꮒ", "ꮒ">>, <<"Ꮓ", "ꮓ">>, <<"Ꮔ", "ꮔ">>, <<"Ꮕ", "ꮕ">>,
     <<"Ꮖ", "ꮖ">>, <<"Ꮗ", "ꮗ">>, <<"Ꮘ", "ꮘ">>, <<"Ꮙ", "ꮙ">>, <<"Ꮚ", "ꮚ">>,
     <<"Ꮛ", "ꮛ">>, <<"Ꮜ", "ꮜ">>, <<"Ꮝ", "ꮝ">>, <<"Ꮞ", "ꮞ">>, <<"Ꮟ", "ꮟ">>,
     <<"Ꮠ", "ꮠ">>, <<"Ꮡ", "ꮡ">>, <<"Ꮢ", "ꮢ">>, <<"Ꮣ", "ꮣ">>, <<"Ꮤ", "ꮤ">>,
     <<"Ꮥ", "ꮥ">>, <<"Ꮦ", "ꮦ">>, <<"Ꮧ", "ꮧ">>, <<"Ꮨ", "ꮨ">>, <<"Ꮩ", "ꮩ">>,
     <<"Ꮪ", "ꮪ">>, <<"Ꮫ", "ꮫ">>, <<"Ꮬ", "ꮬ">>, <<"Ꮭ", "ꮭ">>, <<"Ꮮ", "ꮮ">>,
     <<"Ꮯ", "ꮯ">>, <<"Ꮰ", "ꮰ">>, <<"Ꮱ", "ꮱ">>, <<"Ꮲ", "ꮲ">>, <<"Ꮳ", "ꮳ">>,
     <<"Ꮴ", "ꮴ">>, <<"Ꮵ", "ꮵ">>, <<"Ꮶ", "ꮶ">>, <<"Ꮷ", "ꮷ">>, <<"Ꮸ", "ꮸ">>,
     <<"Ꮹ", "ꮹ">>, <<"Ꮺ", "ꮺ">>, <<"Ꮻ", "ꮻ">>, <<"Ꮼ", "ꮼ">>, <<"Ꮽ", "ꮽ">>,
     <<"Ꮾ", "ꮾ">>, <<"Ꮿ", "ꮿ">>, <<"Ᏸ", "ᏸ">>, <<"Ᏹ", "ᏹ">>, <<"Ᏺ", "ᏺ">>,
     <<"Ᏻ", "ᏻ">>, <<"Ᏼ", "ᏼ">>, <<"Ᏽ", "ᏽ">>, <<"Ა", "ა">>, <<"Ბ", "ბ">>,
     <<"Გ", "გ">>, <<"Დ", "დ">>, <<"Ე", "ე">>, <<"Ვ", "ვ">>, <<"Ზ", "ზ">>,
     <<"Თ", "თ">>, <<"Ი", "ი">>, <<"Კ", "კ">>, <<"Ლ", "ლ">>, <<"Მ", "მ">>,
     <<"Ნ", "ნ">>, <<"Ო", "ო">>, <<"Პ", "პ">>, <<"Ჟ", "ჟ">>, <<"Რ", "რ">>,
     <<"Ს", "ს">>, <<"Ტ", "ტ">>, <<"Უ", "უ">>, <<"Ფ", "ფ">>, <<"Ქ", "ქ">>,
     <<"Ღ", "ღ">>, <<"Ყ", "ყ">>, <<"Შ", "შ">>, <<"Ჩ", "ჩ">>, <<"Ც", "ც">>,
     <<"Ძ", "ძ">>, <<"Წ", "წ">>, <<"Ჭ", "ჭ">>, <<"Ხ", "ხ">>, <<"Ჯ", "ჯ">>,
     <<"Ჰ", "ჰ">>, <<"Ჱ", "ჱ">>, <<"Ჲ", "ჲ">>, <<"Ჳ", "ჳ">>, <<"Ჴ", "ჴ">>,
     <<"Ჵ", "ჵ">>, <<"Ჶ", "ჶ">>, <<"Ჷ", "ჷ">>, <<"Ჸ", "ჸ">>, <<"Ჹ", "ჹ">>,
     <<"Ჺ", "ჺ">>, <<"Ჽ", "ჽ">>, <<"Ჾ", "ჾ">>, <<"Ჿ", "ჿ">>, <<"Ẁ", "ẁ">>,
     <<"Ẃ", "ẃ">>, <<"Ẅ", "ẅ">>, <<"Ẇ", "ẇ">>, <<"Ẉ", "ẉ">>, <<"Ẋ", "ẋ">>,
     <<"Ẍ", "ẍ">>, <<"Ẏ", "ẏ">>, <<"Ẑ", "ẑ">>, <<"Ẓ", "ẓ">>, <<"Ẕ", "ẕ">>,
     <<"ẞ", "ß">>, <<"Ạ", "ạ">>, <<"Ả", "ả">>, <<"Ấ", "ấ">>, <<"Ầ", "ầ">>,
     <<"Ẩ", "ẩ">>, <<"Ẫ", "ẫ">>, <<"Ậ", "ậ">>, <<"Ắ", "ắ">>, <<"Ằ", "ằ">>,
     <<"Ẳ", "ẳ">>, <<"Ẵ", "ẵ">>, <<"Ặ", "ặ">>, <<"Ẹ", "ẹ">>, <<"Ẻ", "ẻ">>,
     <<"Ẽ", "ẽ">>, <<"Ế", "ế">>, <<"Ề", "ề">>, <<"Ể", "ể">>, <<"Ễ", "ễ">>,
     <<"Ệ", "ệ">>, <<"Ỉ", "ỉ">>, <<"Ị", "ị">>, <<"Ọ", "ọ">>, <<"Ỏ", "ỏ">>,
     <<"Ố", "ố">>, <<"Ồ", "ồ">>, <<"Ổ", "ổ">>, <<"Ỗ", "ỗ">>, <<"Ộ", "ộ">>,
     <<"Ớ", "ớ">>, <<"Ờ", "ờ">>, <<"Ở", "ở">>, <<"Ỡ", "ỡ">>, <<"Ợ", "ợ">>,
     <<"Ụ", "ụ">>, <<"Ủ", "ủ">>, <<"Ứ", "ứ">>, <<"Ừ", "ừ">>, <<"Ử", "ử">>,
     <<"Ữ", "ữ">>, <<"Ự", "ự">>, <<"Ỳ", "ỳ">>, <<"Ỵ", "ỵ">>, <<"Ỷ", "ỷ">>,
     <<"Ỹ", "ỹ">>, <<"Ỻ", "ỻ">>, <<"Ỽ", "ỽ">>, <<"Ỿ", "ỿ">>, <<"ᾈ", "ᾀ">>,
     <<"ᾉ", "ᾁ">>, <<"ᾊ", "ᾂ">>, <<"ᾋ", "ᾃ">>, <<"ᾌ", "ᾄ">>, <<"ᾍ", "ᾅ">>,
     <<"ᾎ", "ᾆ">>, <<"ᾏ", "ᾇ">>, <<"ᾘ", "ᾐ">>, <<"ᾙ", "ᾑ">>, <<"ᾚ", "ᾒ">>,
     <<"ᾛ", "ᾓ">>, <<"ᾜ", "ᾔ">>, <<"ᾝ", "ᾕ">>, <<"ᾞ", "ᾖ">>, <<"ᾟ", "ᾗ">>,
     <<"ᾨ", "ᾠ">>, <<"ᾩ", "ᾡ">>, <<"ᾪ", "ᾢ">>, <<"ᾫ", "ᾣ">>, <<"ᾬ", "ᾤ">>,
     <<"ᾭ", "ᾥ">>, <<"ᾮ", "ᾦ">>, <<"ᾯ", "ᾧ">>, <<"Ᾰ", "ᾰ">>, <<"Ᾱ", "ᾱ">>,
     <<"Ὰ", "U+1F70">>, <<"Ά", "U+1F71">>, <<"ᾼ", "ᾳ">>, <<"Ὲ", "U+1F72">>, <<"Έ", "U+1F73">>,
     <<"Ὴ", "U+1F74">>, <<"Ή", "U+1F75">>, <<"ῌ", "ῃ">>, <<"Ῐ", "ῐ">>, <<"Ῑ", "ῑ">>,
     <<"Ὶ", "U+1F76">>, <<"Ί", "U+1F77">>, <<"Ῠ", "ῠ">>, <<"Ῡ", "ῡ">>, <<"Ὺ", "U+1F7A">>,
     <<"Ύ", "U+1F7B">>, <<"Ῥ", "ῥ">>, <<"Ὸ", "U+1F78">>, <<"Ό", "U+1F79">>, <<"Ὼ", "U+1F7C">>,
     <<"Ώ", "U+1F7D">>, <<"ῼ", "ῳ">>, <<"Ↄ", "ↄ">>, <<"Ⓐ", "ⓐ">>, <<"Ⓑ", "ⓑ">>,
     <<"Ⓒ", "ⓒ">>, <<"Ⓓ", "ⓓ">>, <<"Ⓔ", "ⓔ">>, <<"Ⓕ", "ⓕ">>, <<"Ⓖ", "ⓖ">>,
     <<"Ⓗ", "ⓗ">>, <<"Ⓘ", "ⓘ">>, <<"Ⓙ", "ⓙ">>, <<"Ⓚ", "ⓚ">>, <<"Ⓛ", "ⓛ">>,
     <<"Ⓜ", "ⓜ">>, <<"Ⓝ", "ⓝ">>, <<"Ⓞ", "ⓞ">>, <<"Ⓟ", "ⓟ">>, <<"Ⓠ", "ⓠ">>,
     <<"Ⓡ", "ⓡ">>, <<"Ⓢ", "ⓢ">>, <<"Ⓣ", "ⓣ">>, <<"Ⓤ", "ⓤ">>, <<"Ⓥ", "ⓥ">>,
     <<"Ⓦ", "ⓦ">>, <<"Ⓧ", "ⓧ">>, <<"Ⓨ", "ⓨ">>, <<"Ⓩ", "ⓩ">>, <<"Ⲁ", "ⲁ">>,
     <<"Ⲃ", "ⲃ">>, <<"Ⲅ", "ⲅ">>, <<"Ⲇ", "ⲇ">>, <<"Ⲉ", "ⲉ">>, <<"Ⲋ", "ⲋ">>,
     <<"Ⲍ", "ⲍ">>, <<"Ⲏ", "ⲏ">>, <<"Ⲑ", "ⲑ">>, <<"Ⲓ", "ⲓ">>, <<"Ⲕ", "ⲕ">>,
     <<"Ⲗ", "ⲗ">>, <<"Ⲙ", "ⲙ">>, <<"Ⲛ", "ⲛ">>, <<"Ⲝ", "ⲝ">>, <<"Ⲟ", "ⲟ">>,
     <<"Ⲡ", "ⲡ">>, <<"Ⲣ", "ⲣ">>, <<"Ⲥ", "ⲥ">>, <<"Ⲧ", "ⲧ">>, <<"Ⲩ", "ⲩ">>,
     <<"Ⲫ", "ⲫ">>, <<"Ⲭ", "ⲭ">>, <<"Ⲯ", "ⲯ">>, <<"Ⲱ", "ⲱ">>, <<"Ⲳ", "ⲳ">>,
     <<"Ⲵ", "ⲵ">>, <<"Ⲷ", "ⲷ">>, <<"Ⲹ", "ⲹ">>, <<"Ⲻ", "ⲻ">>, <<"Ⲽ", "ⲽ">>,
     <<"Ⲿ", "ⲿ">>, <<"Ⳁ", "ⳁ">>, <<"Ⳃ", "ⳃ">>, <<"Ⳅ", "ⳅ">>, <<"Ⳇ", "ⳇ">>,
     <<"Ⳉ", "ⳉ">>, <<"Ⳋ", "ⳋ">>, <<"Ⳍ", "ⳍ">>, <<"Ⳏ", "ⳏ">>, <<"Ⳑ", "ⳑ">>,
     <<"Ⳓ", "ⳓ">>, <<"Ⳕ", "ⳕ">>, <<"Ⳗ", "ⳗ">>, <<"Ⳙ", "ⳙ">>, <<"Ⳛ", "ⳛ">>,
     <<"Ⳝ", "ⳝ">>, <<"Ⳟ", "ⳟ">>, <<"Ⳡ", "ⳡ">>, <<"Ⳣ", "ⳣ">>, <<"Ⳬ", "ⳬ">>,
     <<"Ⳮ", "ⳮ">>, <<"Ⳳ", "ⳳ">>, <<"Ꚁ", "ꚁ">>, <<"Ꚃ", "ꚃ">>, <<"Ꚅ", "ꚅ">>,
     <<"Ꚇ", "ꚇ">>, <<"Ꚉ", "ꚉ">>, <<"Ꚋ", "ꚋ">>, <<"Ꚍ", "ꚍ">>, <<"Ꚏ", "ꚏ">>,
     <<"Ꚑ", "ꚑ">>, <<"Ꚓ", "ꚓ">>, <<"Ꚕ", "ꚕ">>, <<"Ꚗ", "ꚗ">>, <<"Ꚙ", "ꚙ">>,
     <<"Ꚛ", "ꚛ">>, <<"Ꞁ", "ꞁ">>, <<"Ꞃ", "ꞃ">>, <<"Ꞅ", "ꞅ">>, <<"Ꞇ", "ꞇ">>,
     <<"Ꞌ", "ꞌ">>, <<"Ɥ", "U+0265">>, <<"Ꞑ", "ꞑ">>, <<"Ꞓ", "ꞓ">>, <<"Ꞗ", "ꞗ">>,
     <<"Ꞙ", "ꞙ">>, <<"Ꞛ", "ꞛ">>, <<"Ꞝ", "ꞝ">>, <<"Ꞟ", "ꞟ">>, <<"Ꞡ", "ꞡ">>,
     <<"Ꞣ", "ꞣ">>, <<"Ꞥ", "ꞥ">>, <<"Ꞧ", "ꞧ">>, <<"Ꞩ", "ꞩ">>, <<"Ɦ", "U+0266">>,
     <<"Ɜ", "U+025C">>, <<"Ɡ", "U+0261">>, <<"Ɬ", "U+026C">>, <<"Ɪ", "U+026A">>, <<"Ʞ", "ʞ">>,
     <<"Ʇ", "ʇ">>, <<"Ʝ", "ʝ">>, <<"Ꭓ", "U+AB53">>, <<"Ꞵ", "ꞵ">>, <<"Ꞷ", "ꞷ">>,
     <<"Ꞹ", "ꞹ">>, <<"Ꞻ", "ꞻ">>, <<"Ꞽ", "ꞽ">>, <<"Ꞿ", "ꞿ">>, <<"Ꟁ", "ꟁ">>,
     <<"Ꟃ", "ꟃ">>, <<"Ꞔ", "ꞔ">>, <<"Ʂ", "ʂ">>, <<"Ᶎ", "ᶎ">>, <<"Ꟈ", "ꟈ">>,
     <<"Ꟊ", "ꟊ">>, <<"Ꟑ", "ꟑ">>, <<"Ꟗ", "ꟗ">>, <<"Ꟙ", "ꟙ">>, <<"Ꟶ", "ꟶ">>}

LowerOf ==
    [c \in { p[1] : p \in LowerPairs } |->
        (CHOOSE p \in LowerPairs : p[1] = c)[2]]

\* the characters with the property Cased
Cased ==
    {"A", "B", "C", "D", "E", "F", "G", "H", "I", "J", "K", "L", "M", "N", "O", "P",
     "Q", "R", "S", "T", "U", "V", "W", "X", "Y", "Z", "a", "b", "c", "d", "e", "f",
     "g", "h", "i", "j", "k", "l", "m", "n", "o", "p", "q", "r", "s", "t", "u", "v",
     "w", "x", "y", "z", "ª", "µ", "º", "À", "Á", "Â", "Ã", "Ä", "Å", "Æ", "Ç", "È",
     "É", "Ê", "Ë", "Ì", "Í", "Î", "Ï", "Ð", "Ñ", "Ò", "Ó", "Ô", "Õ", "Ö", "Ø", "Ù",
     "Ú", "Û", "Ü", "Ý", "Þ", "ß", "à", "á", "â", "ã", "ä", "å", "æ", "ç", "è", "é",
     "ê", "ë", "ì", "í", "î", "ï", "ð", "ñ", "ò", "ó", "ô", "õ", "ö", "ø", "ù", "ú",
     "û", "ü", "ý", "þ", "ÿ", "ƀ", "Ɓ", "Ƃ", "ƃ", "Ƅ", "ƅ", "Ɔ", "Ƈ", "ƈ", "Ɖ", "Ɗ",
     "Ƌ", "ƌ", "ƍ", "Ǝ", "Ə", "Ɛ", "Ƒ", "ƒ", "Ɠ", "Ɣ", "ƕ", "Ɩ", "Ɨ", "Ƙ", "ƙ", "ƚ",
     "ƛ", "Ɯ", "Ɲ", "ƞ", "Ɵ", "Ơ", "ơ", "Ƣ", "ƣ", "Ƥ", "ƥ", "Ʀ", "Ƨ", "ƨ", "Ʃ", "ƪ",
     "ƫ", "Ƭ", "ƭ", "Ʈ", "Ư", "ư", "Ʊ", "Ʋ", "Ƴ", "ƴ", "Ƶ", "ƶ", "Ʒ", "Ƹ", "ƹ", "ƺ",
     "Ƽ", "ƽ", "ƾ", "ƿ", "Ǆ", "ǅ", "ǆ", "Ǉ", "ǈ", "ǉ", "Ǌ", "ǋ", "ǌ", "Ǎ", "ǎ", "Ǐ",
     "ǐ", "Ǒ", "ǒ", "Ǔ", "ǔ", "Ǖ", "ǖ", "Ǘ", "ǘ", "Ǚ", "ǚ", "Ǜ", "ǜ", "ǝ", "Ǟ", "ǟ",
     "Ǡ", "ǡ", "Ǣ", "ǣ", "Ǥ", "ǥ", "Ǧ", "ǧ", "Ǩ", "ǩ", "Ǫ", "ǫ", "Ǭ", "ǭ", "Ǯ", "ǯ",
     "ǰ", "Ǳ", "ǲ", "ǳ", "Ǵ", "ǵ", "Ƕ", "Ƿ", "Ǹ", "ǹ", "Ǻ", "ǻ", "Ǽ", "ǽ", "Ǿ", "ǿ",
     "ʀ", "ʁ", "ʂ", "ʃ", "ʄ", "ʅ", "ʆ", "ʇ", "ʈ", "ʉ", "ʊ", "ʋ", "ʌ", "ʍ", "ʎ", "ʏ",
     "ʐ", "ʑ", "ʒ", "ʓ", "ʕ", "ʖ", "ʗ", "ʘ", "ʙ", "ʚ", "ʛ", "ʜ", "ʝ", "ʞ", "ʟ", "ʠ",
     "ʡ", "ʢ", "ʣ", "ʤ", "ʥ", "ʦ", "ʧ", "ʨ", "ʩ", "ʪ", "ʫ", "ʬ", "ʭ", "ʮ", "ʯ", "ʰ",
     "ʱ", "ʲ", "ʳ", "ʴ", "ʵ", "ʶ", "ʷ", "ʸ", "ˀ", "ˁ", "ˠ", "ˡ", "ˢ", "ˣ", "ˤ", "Ά",
     "Έ", "Ή", "Ί", "Ό", "Ύ", "Ώ", "ΐ", "Α", "Β", "Γ", "Δ", "Ε", "Ζ", "Η", "Θ", "Ι",
     "Κ", "Λ", "Μ", "Ν", "Ξ", "Ο", "Π", "Ρ", "Σ", "Τ", "Υ", "Φ", "Χ", "Ψ", "Ω", "Ϊ",
     "Ϋ", "ά", "έ", "ή", "ί", "ΰ", "α", "β", "γ", "δ", "ε", "ζ", "η", "θ", "ι", "κ",
     "λ", "μ", "ν", "ξ", "ο", "π", "ρ", "ς", "σ", "τ", "υ", "φ", "χ", "ψ", "ω", "ϊ",
     "ϋ", "ό", "ύ", "ώ", "Ϗ", "ϐ", "ϑ", "ϒ", "ϓ", "ϔ", "ϕ", "ϖ", "ϗ", "Ϙ", "ϙ", "Ϛ",
     "ϛ", "Ϝ", "ϝ", "Ϟ", "ϟ", "Ϡ", "ϡ", "Ϣ", "ϣ", "Ϥ", "ϥ", "Ϧ", "ϧ", "Ϩ", "ϩ", "Ϫ",
     "ϫ", "Ϭ", "ϭ", "Ϯ", "ϯ", "ϰ", "ϱ", "ϲ", "ϳ", "ϴ", "ϵ", "Ϸ", "ϸ", "Ϲ", "Ϻ", "ϻ",
     "ϼ", "Ͻ", "Ͼ", "Ͽ", "Ҁ", "ҁ", "Ҋ", "ҋ", "Ҍ", "ҍ", "Ҏ", "ҏ", "Ґ", "ґ", "Ғ", "ғ",
     "Ҕ", "ҕ", "Җ", "җ", "Ҙ", "ҙ", "Қ", "қ", "Ҝ", "ҝ", "Ҟ", "ҟ", "Ҡ", "ҡ", "Ң", "ң",
     "Ҥ", "ҥ", "Ҧ", "ҧ", "Ҩ", "ҩ", "Ҫ", "ҫ", "Ҭ", "ҭ", "Ү", "ү", "Ұ", "ұ", "Ҳ", "ҳ",
     "Ҵ", "ҵ", "Ҷ", "ҷ", "Ҹ", "ҹ", "Һ", "һ", "Ҽ", "ҽ", "Ҿ", "ҿ", "Ӏ", "Ӂ", "ӂ", "Ӄ",
     "ӄ", "Ӆ", "ӆ", "Ӈ", "ӈ", "Ӊ", "ӊ", "Ӌ", "ӌ", "Ӎ", "ӎ", "ӏ", "Ӑ", "ӑ", "Ӓ", "ӓ",
     "Ӕ", "ӕ", "Ӗ", "ӗ", "Ә", "ә", "Ӛ", "ӛ", "Ӝ", "ӝ", "Ӟ", "ӟ", "Ӡ", "ӡ", "Ӣ", "ӣ",
     "Ӥ", "ӥ", "Ӧ", "ӧ", "Ө", "ө", "Ӫ", "ӫ", "Ӭ", "ӭ", "Ӯ", "ӯ", "Ӱ", "ӱ", "Ӳ", "ӳ",
     "Ӵ", "ӵ", "Ӷ", "ӷ", "Ӹ", "ӹ", "Ӻ", "ӻ", "Ӽ", "ӽ", "Ӿ", "ӿ", "ր", "ց", "ւ", "փ",
     "ք", "օ", "ֆ", "և", "ֈ", "Ⴀ", "Ⴁ", "Ⴂ", "Ⴃ", "Ⴄ", "Ⴅ", "Ⴆ", "Ⴇ", "Ⴈ", "Ⴉ", "Ⴊ",
     "Ⴋ", "Ⴌ", "Ⴍ", "Ⴎ", "Ⴏ", "Ⴐ", "Ⴑ", "Ⴒ", "Ⴓ", "Ⴔ", "Ⴕ", "Ⴖ", "Ⴗ", "Ⴘ", "Ⴙ", "Ⴚ",
     "Ⴛ", "Ⴜ", "Ⴝ", "Ⴞ", "Ⴟ", "Ⴠ", "Ⴡ", "Ⴢ", "Ⴣ", "Ⴤ", "Ⴥ", "Ⴧ", "Ⴭ", "ა", "ბ", "გ",
     "დ", "ე", "ვ", "ზ", "თ", "ი", "კ", "ლ", "მ", "ნ", "ო", "პ", "ჟ", "რ", "ს", "ტ",
     "უ", "ფ", "ქ", "ღ", "ყ", "შ", "ჩ", "ც", "ძ", "წ", "ჭ", "ხ", "ჯ", "ჰ", "ჱ", "ჲ",
     "ჳ", "ჴ", "ჵ", "ჶ", "ჷ", "ჸ", "ჹ", "ჺ", "ჽ", "ჾ", "ჿ", "Ꭰ", "Ꭱ", "Ꭲ", "Ꭳ", "Ꭴ",
     "Ꭵ", "Ꭶ", "Ꭷ", "Ꭸ", "Ꭹ", "Ꭺ", "Ꭻ", "Ꭼ", "Ꭽ", "Ꭾ", "Ꭿ", "Ꮀ", "Ꮁ", "Ꮂ", "Ꮃ", "Ꮄ",
     "Ꮅ", "Ꮆ", "Ꮇ", "Ꮈ", "Ꮉ", "Ꮊ", "Ꮋ", "Ꮌ", "Ꮍ", "Ꮎ", "Ꮏ", "Ꮐ", "Ꮑ", "Ꮒ", "Ꮓ", "Ꮔ",
     "Ꮕ", "Ꮖ", "Ꮗ", "Ꮘ", "Ꮙ", "Ꮚ", "Ꮛ", "Ꮜ", "Ꮝ", "Ꮞ", "Ꮟ", "Ꮠ", "Ꮡ", "Ꮢ", "Ꮣ", "Ꮤ",
     "Ꮥ", "Ꮦ", "Ꮧ", "Ꮨ", "Ꮩ", "Ꮪ", "Ꮫ", "Ꮬ", "Ꮭ", "Ꮮ", "Ꮯ", "Ꮰ", "Ꮱ", "Ꮲ", "Ꮳ", "Ꮴ",
     "Ꮵ", "Ꮶ", "Ꮷ", "Ꮸ", "Ꮹ", "Ꮺ", "Ꮻ", "Ꮼ", "Ꮽ", "Ꮾ", "Ꮿ", "Ᏸ", "Ᏹ", "Ᏺ", "Ᏻ", "Ᏼ",
     "Ᏽ", "ᏸ", "ᏹ", "ᏺ", "ᏻ", "ᏼ", "ᏽ", "ᲀ", "ᲁ", "ᲂ", "ᲃ", "ᲄ", "ᲅ", "ᲆ", "ᲇ", "ᲈ",
     "Ა", "Ბ", "Გ", "Დ", "Ე", "Ვ", "Ზ", "Თ", "Ი", "Კ", "Ლ", "Მ", "Ნ", "Ო", "Პ", "Ჟ",
     "Რ", "Ს", "Ტ", "Უ", "Ფ", "Ქ", "Ღ", "Ყ", "Შ", "Ჩ", "Ც", "Ძ", "Წ", "Ჭ", "Ხ", "Ჯ",
     "Ჰ", "Ჱ", "Ჲ", "Ჳ", "Ჴ", "Ჵ", "Ჶ", "Ჷ", "Ჸ", "Ჹ", "Ჺ", "Ჽ", "Ჾ", "Ჿ", "ᶀ", "ᶁ",
     "ᶂ", "ᶃ", "ᶄ", "ᶅ", "ᶆ", "ᶇ", "ᶈ", "ᶉ", "ᶊ", "ᶋ", "ᶌ", "ᶍ", "ᶎ", "ᶏ", "ᶐ", "ᶑ",
     "ᶒ", "ᶓ", "ᶔ", "ᶕ", "ᶖ", "ᶗ", "ᶘ", "ᶙ", "ᶚ", "ᶛ", "ᶜ", "ᶝ", "ᶞ", "ᶟ", "ᶠ", "ᶡ",
     "ᶢ", "ᶣ", "ᶤ", "ᶥ", "ᶦ", "ᶧ", "ᶨ", "ᶩ", "ᶪ", "ᶫ", "ᶬ", "ᶭ", "ᶮ", "ᶯ", "ᶰ", "ᶱ",
     "ᶲ", "ᶳ", "ᶴ", "ᶵ", "ᶶ", "ᶷ", "ᶸ", "ᶹ", "ᶺ", "ᶻ", "ᶼ", "ᶽ", "ᶾ", "ᶿ", "Ẁ", "ẁ",
     "Ẃ", "ẃ", "Ẅ", "ẅ", "Ẇ", "ẇ", "Ẉ", "ẉ", "Ẋ", "ẋ", "Ẍ", "ẍ", "Ẏ", "ẏ", "Ẑ", "ẑ",
     "Ẓ", "ẓ", "Ẕ", "ẕ", "ẖ", "ẗ", "ẘ", "ẙ", "ẚ", "ẛ", "ẜ", "ẝ", "ẞ", "ẟ", "Ạ", "ạ",
     "Ả", "ả", "Ấ", "ấ", "Ầ", "ầ", "Ẩ", "ẩ", "Ẫ", "ẫ", "Ậ", "ậ", "Ắ", "ắ", "Ằ", "ằ",
     "Ẳ", "ẳ", "Ẵ", "ẵ", "Ặ", "ặ", "Ẹ", "ẹ", "Ẻ", "ẻ", "Ẽ", "ẽ", "Ế", "ế", "Ề", "ề",
     "Ể", "ể", "Ễ", "ễ", "Ệ", "ệ", "Ỉ", "ỉ", "Ị", "ị", "Ọ", "ọ", "Ỏ", "ỏ", "Ố", "ố",
     "Ồ", "ồ", "Ổ", "ổ", "Ỗ", "ỗ", "Ộ", "ộ", "Ớ", "ớ", "Ờ", "ờ", "Ở", "ở", "Ỡ", "ỡ",
     "Ợ", "ợ", "Ụ", "ụ", "Ủ", "ủ", "Ứ", "ứ", "Ừ", "ừ", "Ử", "ử", "Ữ", "ữ", "Ự", "ự",
     "Ỳ", "ỳ", "Ỵ", "ỵ", "Ỷ", "ỷ", "Ỹ", "ỹ", "Ỻ", "ỻ", "Ỽ", "ỽ", "Ỿ", "ỿ", "ᾀ", "ᾁ",
     "ᾂ", "ᾃ", "ᾄ", "ᾅ", "ᾆ", "ᾇ", "ᾈ", "ᾉ", "ᾊ", "ᾋ", "ᾌ", "ᾍ", "ᾎ", "ᾏ", "ᾐ", "ᾑ",
     "ᾒ", "ᾓ", "ᾔ", "ᾕ", "ᾖ", "ᾗ", "ᾘ", "ᾙ", "ᾚ", "ᾛ", "ᾜ", "ᾝ", "ᾞ", "ᾟ", "ᾠ", "ᾡ",
     "ᾢ", "ᾣ", "ᾤ", "ᾥ", "ᾦ", "ᾧ", "ᾨ", "ᾩ", "ᾪ", "ᾫ", "ᾬ", "ᾭ", "ᾮ", "ᾯ", "ᾰ", "ᾱ",
     "ᾲ", "ᾳ", "ᾴ", "ᾶ", "ᾷ", "Ᾰ", "Ᾱ", "Ὰ", "Ά", "ᾼ", "ι", "ῂ", "ῃ", "ῄ", "ῆ", "ῇ",
     "Ὲ", "Έ", "Ὴ", "Ή", "ῌ", "ῐ", "ῑ", "ῒ", "ΐ", "ῖ", "ῗ", "Ῐ", "Ῑ", "Ὶ", "Ί", "ῠ",
     "ῡ", "ῢ", "ΰ", "ῤ", "ῥ", "ῦ", "ῧ", "Ῠ", "Ῡ", "Ὺ", "Ύ", "Ῥ", "ῲ", "ῳ", "ῴ", "ῶ",
     "ῷ", "Ὸ", "Ό", "Ὼ", "Ώ", "ῼ", "ₐ", "ₑ", "ₒ", "ₓ", "ₔ", "ₕ", "ₖ", "ₗ", "ₘ", "ₙ",
     "ₚ", "ₛ", "ₜ", "Ↄ", "ↄ", "Ⓐ", "Ⓑ", "Ⓒ", "Ⓓ", "Ⓔ", "Ⓕ", "Ⓖ", "Ⓗ", "Ⓘ", "Ⓙ", "Ⓚ",
     "Ⓛ", "Ⓜ", "Ⓝ", "Ⓞ", "Ⓟ", "Ⓠ", "Ⓡ", "Ⓢ", "Ⓣ", "Ⓤ", "Ⓥ", "Ⓦ", "Ⓧ", "Ⓨ", "Ⓩ", "ⓐ",
     "ⓑ", "ⓒ", "ⓓ", "ⓔ", "ⓕ", "ⓖ", "ⓗ", "ⓘ", "ⓙ", "ⓚ", "ⓛ", "ⓜ", "ⓝ", "ⓞ", "ⓟ", "ⓠ",
     "ⓡ", "ⓢ", "ⓣ", "ⓤ", "ⓥ", "ⓦ", "ⓧ", "ⓨ", "ⓩ", "Ⲁ", "ⲁ", "Ⲃ", "ⲃ", "Ⲅ", "ⲅ", "Ⲇ",
     "ⲇ", "Ⲉ", "ⲉ", "Ⲋ", "ⲋ", "Ⲍ", "ⲍ", "Ⲏ", "ⲏ", "Ⲑ", "ⲑ", "Ⲓ", "ⲓ", "Ⲕ", "ⲕ", "Ⲗ",
     "ⲗ", "Ⲙ", "ⲙ", "Ⲛ", "ⲛ", "Ⲝ", "ⲝ", "Ⲟ", "ⲟ", "Ⲡ", "ⲡ", "Ⲣ", "ⲣ", "Ⲥ", "ⲥ", "Ⲧ",
     "ⲧ", "Ⲩ", "ⲩ", "Ⲫ", "ⲫ", "Ⲭ", "ⲭ", "Ⲯ", "ⲯ", "Ⲱ", "ⲱ", "Ⲳ", "ⲳ", "Ⲵ", "ⲵ", "Ⲷ",
     "ⲷ", "Ⲹ", "ⲹ", "Ⲻ", "ⲻ", "Ⲽ", "ⲽ", "Ⲿ", "ⲿ", "Ⳁ", "ⳁ", "Ⳃ", "ⳃ", "Ⳅ", "ⳅ", "Ⳇ",
     "ⳇ", "Ⳉ", "ⳉ", "Ⳋ", "ⳋ", "Ⳍ", "ⳍ", "Ⳏ", "ⳏ", "Ⳑ", "ⳑ", "Ⳓ", "ⳓ", "Ⳕ", "ⳕ", "Ⳗ",
     "ⳗ", "Ⳙ", "ⳙ", "Ⳛ", "ⳛ", "Ⳝ", "ⳝ", "Ⳟ", "ⳟ", "Ⳡ", "ⳡ", "Ⳣ", "ⳣ", "ⳤ", "Ⳬ", "ⳬ",
     "Ⳮ", "ⳮ", "Ⳳ", "ⳳ", "Ꚁ", "ꚁ", "Ꚃ", "ꚃ", "Ꚅ", "ꚅ", "Ꚇ", "ꚇ", "Ꚉ", "ꚉ", "Ꚋ", "ꚋ",
     "Ꚍ", "ꚍ", "Ꚏ", "ꚏ", "Ꚑ", "ꚑ", "Ꚓ", "ꚓ", "Ꚕ", "ꚕ", "Ꚗ", "ꚗ", "Ꚙ", "ꚙ", "Ꚛ", "ꚛ",
     "ꚜ", "ꚝ", "Ꞁ", "ꞁ", "Ꞃ", "ꞃ", "Ꞅ", "ꞅ", "Ꞇ", "ꞇ", "Ꞌ", "ꞌ", "Ɥ", "ꞎ", "Ꞑ", "ꞑ",
     "Ꞓ", "ꞓ", "ꞔ", "ꞕ", "Ꞗ", "ꞗ", "Ꞙ", "ꞙ", "Ꞛ", "ꞛ", "Ꞝ", "ꞝ", "Ꞟ", "ꞟ", "Ꞡ", "ꞡ",
     "Ꞣ", "ꞣ", "Ꞥ", "ꞥ", "Ꞧ", "ꞧ", "Ꞩ", "ꞩ", "Ɦ", "Ɜ", "Ɡ", "Ɬ", "Ɪ", "ꞯ", "Ʞ", "Ʇ",
     "Ʝ", "Ꭓ", "Ꞵ", "ꞵ", "Ꞷ", "ꞷ", "Ꞹ", "ꞹ", "Ꞻ", "ꞻ", "Ꞽ", "ꞽ", "Ꞿ", "ꞿ", "Ꟁ", "ꟁ",
     "Ꟃ", "ꟃ", "Ꞔ", "Ʂ", "Ᶎ", "Ꟈ", "ꟈ", "Ꟊ", "ꟊ", "Ꟑ", "ꟑ", "ꟓ", "ꟕ", "Ꟗ", "ꟗ", "Ꟙ",
     "ꟙ", "Ꟶ", "ꟶ", "ꟸ", "ꟹ", "ꟺ", "ꮀ", "ꮁ", "ꮂ", "ꮃ", "ꮄ", "ꮅ", "ꮆ", "ꮇ", "ꮈ", "ꮉ",
     "ꮊ", "ꮋ", "ꮌ", "ꮍ", "ꮎ", "ꮏ", "ꮐ", "ꮑ", "ꮒ", "ꮓ", "ꮔ", "ꮕ", "ꮖ", "ꮗ", "ꮘ", "ꮙ",
     "ꮚ", "ꮛ", "ꮜ", "ꮝ", "ꮞ", "ꮟ", "ꮠ", "ꮡ", "ꮢ", "ꮣ", "ꮤ", "ꮥ", "ꮦ", "ꮧ", "ꮨ", "ꮩ",
     "ꮪ", "ꮫ", "ꮬ", "ꮭ", "ꮮ", "ꮯ", "ꮰ", "ꮱ", "ꮲ", "ꮳ", "ꮴ", "ꮵ", "ꮶ", "ꮷ", "ꮸ", "ꮹ",
     "ꮺ", "ꮻ", "ꮼ", "ꮽ", "ꮾ", "ꮿ", "U+0253", "U+0254", "U+0256", "U+0257", "U+0259", "U+025B", "U+025C", "U+0260", "U+0261", "U+0263",
     "U+0265", "U+0266", "U+0268", "U+0269", "U+026A", "U+026C", "U+026F", "U+0272", "U+0275", "U+037B", "U+037C", "U+037D", "U+1F70", "U+1F71", "U+1F72", "U+1F73",
     "U+1F74", "U+1F75", "U+1F76", "U+1F77", "U+1F78", "U+1F79", "U+1F7A", "U+1F7B", "U+1F7C", "U+1F7D", "U+2D00", "U+2D01", "U+2D02", "U+2D03", "U+2D04", "U+2D05",
     "U+2D06", "U+2D07", "U+2D08", "U+2D09", "U+2D0A", "U+2D0B", "U+2D0C", "U+2D0D", "U+2D0E", "U+2D0F", "U+2D10", "U+2D11", "U+2D12", "U+2D13", "U+2D14", "U+2D15",
     "U+2D16", "U+2D17", "U+2D18", "U+2D19", "U+2D1A", "U+2D1B", "U+2D1C", "U+2D1D", "U+2D1E", "U+2D1F", "U+2D20", "U+2D21", "U+2D22", "U+2D23", "U+2D24", "U+2D25",
     "U+2D27", "U+2D2D", "U+AB53", "U+AB70", "U+AB71", "U+AB72", "U+AB73", "U+AB74", "U+AB75", "U+AB76", "U+AB77", "U+AB78", "U+AB79", "U+AB7A", "U+AB7B", "U+AB7C",
     "U+AB7D", "U+AB7E", "U+AB7F"}

\* the characters with the property Case_Ignorable
CaseIgnorable ==
    {"'", ".", ":", "^", "¨", "­", "¯", "´", "·", "¸", "ʰ", "ʱ", "ʲ", "ʳ", "ʴ", "ʵ",
     "ʶ", "ʷ", "ʸ", "ʹ", "ʺ", "ʻ", "ʼ", "ʽ", "ʾ", "ʿ", "ˀ", "ˁ", "˂", "˃", "˄", "˅",
     "ˆ", "ˇ", "ˈ", "ˉ", "ˊ", "ˋ", "ˌ", "ˍ", "ˎ", "ˏ", "ː", "ˑ", "˒", "˓", "˔", "˕",
     "˖", "˗", "˘", "˙", "˚", "˛", "˜", "˝", "˞", "˟", "ˠ", "ˡ", "ˢ", "ˣ", "ˤ", "˥",
     "˦", "˧", "˨", "˩", "˪", "˫", "ˬ", "˭", "ˮ", "˯", "˰", "˱", "˲", "˳", "˴", "˵",
     "˶", "˷", "˸", "˹", "˺", "˻", "˼", "˽", "˾", "˿", "΄", "΅", "·", "҃", "҄", "҅",
     "҆", "҇", "҈", "҉", "֑", "֒", "֓", "֔", "֕", "֖", "֗", "֘", "֙", "֚", "֛", "֜",
     "֝", "֞", "֟", "֠", "֡", "֢", "֣", "֤", "֥", "֦", "֧", "֨", "֩", "֪", "֫", "֬",
     "֭", "֮", "֯", "ְ", "ֱ", "ֲ", "ֳ", "ִ", "ֵ", "ֶ", "ַ", "ָ", "ֹ", "ֺ", "ֻ", "ּ",
     "ֽ", "ֿ", "ׁ", "ׂ", "ׄ", "ׅ", "ׇ", "״", "ۖ", "ۗ", "ۘ", "ۙ", "ۚ", "ۛ", "ۜ", "۝",
     "۟", "۠", "ۡ", "ۢ", "ۣ", "ۤ", "ۥ", "ۦ", "ۧ", "ۨ", "۪", "۫", "۬", "ۭ", "ަ", "ާ",
     "ި", "ީ", "ު", "ޫ", "ެ", "ޭ", "ޮ", "ޯ", "ް", "߫", "߬", "߭", "߮", "߯", "߰", "߱",
     "߲", "߳", "ߴ", "ߵ", "ߺ", "߽", "࢈", "࢐", "࢑", "࢘", "࢙", "࢚", "࢛", "࢜", "࢝", "࢞",
     "࢟", "ࣉ", "࣊", "࣋", "࣌", "࣍", "࣎", "࣏", "࣐", "࣑", "࣒", "࣓", "ࣔ", "ࣕ", "ࣖ", "ࣗ",
     "ࣘ", "ࣙ", "ࣚ", "ࣛ", "ࣜ", "ࣝ", "ࣞ", "ࣟ", "࣠", "࣡", "࣢", "ࣣ", "ࣤ", "ࣥ", "ࣦ", "ࣧ",
     "ࣨ", "ࣩ", "࣪", "࣫", "࣬", "࣭", "࣮", "࣯", "ࣰ", "ࣱ", "ࣲ", "ࣳ", "ࣴ", "ࣵ", "ࣶ", "ࣷ",
     "ࣸ", "ࣹ", "ࣺ", "ࣻ", "ࣼ", "ࣽ", "ࣾ", "ࣿ", "ঁ", "়", "ু", "ূ", "ৃ", "ৄ", "্", "ৢ",
     "ৣ", "৾", "ઁ", "ં", "઼", "ુ", "ૂ", "ૃ", "ૄ", "ૅ", "ે", "ૈ", "્", "ૢ", "ૣ", "ૺ",
     "ૻ", "ૼ", "૽", "૾", "૿", "ஂ", "ீ", "்", "ಁ", "಼", "ಿ", "ೆ", "ೌ", "್", "ೢ", "ೣ",
     "ඁ", "්", "ි", "ී", "ු", "ූ", "ັ", "ິ", "ີ", "ຶ", "ື", "ຸ", "ູ", "຺", "ົ", "ຼ",
     "ໆ", "່", "້", "໊", "໋", "໌", "ໍ", "ྀ", "ཱྀ", "ྂ", "ྃ", "྄", "྆", "྇", "ྍ", "ྎ",
     "ྏ", "ྐ", "ྑ", "ྒ", "ྒྷ", "ྔ", "ྕ", "ྖ", "ྗ", "ྙ", "ྚ", "ྛ", "ྜ", "ྜྷ", "ྞ", "ྟ",
     "ྠ", "ྡ", "ྡྷ", "ྣ", "ྤ", "ྥ", "ྦ", "ྦྷ", "ྨ", "ྩ", "ྪ", "ྫ", "ྫྷ", "ྭ", "ྮ", "ྯ",
     "ྰ", "ྱ", "ྲ", "ླ", "ྴ", "ྵ", "ྶ", "ྷ", "ྸ", "ྐྵ", "ྺ", "ྻ", "ྼ", "࿆", "ႂ", "ႅ",
     "ႆ", "ႍ", "ႝ", "ჼ", "឴", "឵", "ិ", "ី", "ឹ", "ឺ", "ុ", "ូ", "ួ", "ំ", "៉", "៊",
     "់", "៌", "៍", "៎", "៏", "័", "៑", "្", "៓", "ៗ", "៝", "ᢅ", "ᢆ", "ᢩ", "ᪧ", "᪰",
     "᪱", "᪲", "᪳", "᪴", "᪵", "᪶", "᪷", "᪸", "᪹", "᪺", "᪻", "᪼", "᪽", "᪾", "ᪿ", "ᫀ",
     "᫁", "᫂", "᫃", "᫄", "᫅", "᫆", "᫇", "᫈", "᫉", "᫊", "᫋", "ᫌ", "ᫍ", "ᫎ", "ᮀ", "ᮁ",
     "ᮢ", "ᮣ", "ᮤ", "ᮥ", "ᮨ", "ᮩ", "᮫", "ᮬ", "ᮭ", "᯦", "ᯨ", "ᯩ", "ᯭ", "ᯯ", "ᯰ", "ᯱ",
     "᳐", "᳑", "᳒", "᳔", "᳕", "᳖", "᳗", "᳘", "᳙", "᳚", "᳛", "᳜", "᳝", "᳞", "᳟", "᳠",
     "᳢", "᳣", "᳤", "᳥", "᳦", "᳧", "᳨", "᳭", "᳴", "᳸", "᳹", "ᶛ", "ᶜ", "ᶝ", "ᶞ", "ᶟ",
     "ᶠ", "ᶡ", "ᶢ", "ᶣ", "ᶤ", "ᶥ", "ᶦ", "ᶧ", "ᶨ", "ᶩ", "ᶪ", "ᶫ", "ᶬ", "ᶭ", "ᶮ", "ᶯ",
     "ᶰ", "ᶱ", "ᶲ", "ᶳ", "ᶴ", "ᶵ", "ᶶ", "ᶷ", "ᶸ", "ᶹ", "ᶺ", "ᶻ", "ᶼ", "ᶽ", "ᶾ", "ᶿ",
     "᷀", "᷁", "᷂", "᷃", "᷄", "᷅", "᷆", "᷇", "᷈", "᷉", "᷊", "᷋", "᷌", "᷍", "᷎", "᷏",
     "᷐", "᷑", "᷒", "ᷓ", "ᷔ", "ᷕ", "ᷖ", "ᷗ", "ᷘ", "ᷙ", "ᷚ", "ᷛ", "ᷜ", "ᷝ", "ᷞ", "ᷟ",
     "ᷠ", "ᷡ", "ᷢ", "ᷣ", "ᷤ", "ᷥ", "ᷦ", "ᷧ", "ᷨ", "ᷩ", "ᷪ", "ᷫ", "ᷬ", "ᷭ", "ᷮ", "ᷯ",
     "ᷰ", "ᷱ", "ᷲ", "ᷳ", "ᷴ", "᷵", "᷶", "᷷", "᷸", "᷹", "᷺", "᷻", "᷼", "᷽", "᷾", "᷿",
     "᾽", "᾿", "῀", "῁", "῍", "῎", "῏", "῝", "῞", "῟", "῭", "΅", "`", "´", "῾", "ₐ",
     "ₑ", "ₒ", "ₓ", "ₔ", "ₕ", "ₖ", "ₗ", "ₘ", "ₙ", "ₚ", "ₛ", "ₜ", "⃐", "⃑", "⃒", "⃓",
     "⃔", "⃕", "⃖", "⃗", "⃘", "⃙", "⃚", "⃛", "⃜", "⃝", "⃞", "⃟", "⃠", "⃡", "⃢", "⃣",
     "⃤", "⃥", "⃦", "⃧", "⃨", "⃩", "⃪", "⃫", "⃬", "⃭", "⃮", "⃯", "⃰", "⳯", "⳰", "⳱",
     "ⷠ", "ⷡ", "ⷢ", "ⷣ", "ⷤ", "ⷥ", "ⷦ", "ⷧ", "ⷨ", "ⷩ", "ⷪ", "ⷫ", "ⷬ", "ⷭ", "ⷮ", "ⷯ",
     "ⷰ", "ⷱ", "ⷲ", "ⷳ", "ⷴ", "ⷵ", "ⷶ", "ⷷ", "ⷸ", "ⷹ", "ⷺ", "ⷻ", "ⷼ", "ⷽ", "ⷾ", "ⷿ",
     "゙", "゚", "゛", "゜", "ゝ", "ゞ", "ー", "ヽ", "ヾ", "ꓸ", "ꓹ", "ꓺ", "ꓻ", "ꓼ", "ꓽ", "ꚜ",
     "ꚝ", "ꚞ", "ꚟ", "꛰", "꛱", "ꞈ", "꞉", "꞊", "ꟲ", "ꟳ", "ꟴ", "ꟸ", "ꟹ", "꣄", "ꣅ", "꣠",
     "꣡", "꣢", "꣣", "꣤", "꣥", "꣦", "꣧", "꣨", "꣩", "꣪", "꣫", "꣬", "꣭", "꣮", "꣯", "꣰",
     "꣱", "ꣿ", "ꦀ", "ꦁ", "ꦂ", "꦳", "ꦶ", "ꦷ", "ꦸ", "ꦹ", "ꦼ", "ꦽ", "ꧏ", "ꧥ", "ꧦ", "ꪰ",
     "ꪲ", "ꪳ", "ꪴ", "ꪷ", "ꪸ", "ꪾ", "꪿", "꫁", "ꫝ", "ꫬ", "ꫭ", "ꫳ", "ꫴ", "꫶", "ꯥ", "ꯨ",
     "꯭", "﮲", "﮳", "﮴", "﮵", "﮶", "﮷", "﮸", "﮹", "﮺", "﮻", "﮼", "﮽", "﮾", "﮿", "﯀",
     "﯁", "﯂", "﻿", "ﾞ", "ﾟ", "￣", "￹", "￺", "￻"}

\* str.lower() on one character
LowerChar(c) == IF c \in DOMAIN LowerOf THEN LowerOf[c] ELSE c

\* the nearest position from j backwards whose character is not
\* case-ignorable, 0 when there is none
RECURSIVE BeforeIgnorables(_, _)
BeforeIgnorables(s, j) ==
    IF j = 0 THEN 0
    ELSE IF s[j] \notin CaseIgnorable THEN j
    ELSE BeforeIgnorables(s, j - 1)

\* the nearest position from j onwards whose character is not
\* case-ignorable, Len(s) + 1 when there is none
RECURSIVE AfterIgnorables(_, _)
AfterIgnorables(s, j) ==
    IF j > Len(s) THEN j
    ELSE IF s[j] \notin CaseIgnorable THEN j
    ELSE AfterIgnorables(s, j + 1)

\* the capital sigma at position i ends a word: a cased character precedes
\* it and none follows it, case-ignorable characters skipped on both sides
FinalSigma(s, i) ==
    LET before == BeforeIgnorables(s, i - 1)
        after == AfterIgnorables(s, i + 1)
    IN  IF before = 0 THEN FALSE
        ELSE IF s[before] \notin Cased THEN FALSE
        ELSE IF after > Len(s) THEN TRUE
        ELSE s[after] \notin Cased

\* str.lower()
Lower(s) ==
    [i \in 1..Len(s) |->
        IF s[i] = "Σ"
        THEN IF FinalSigma(s, i) THEN "ς" ELSE "σ"
        ELSE LowerChar(s[i])]

\* s.startswith(prefix)
StartsWith(s, prefix) ==
    /\ Len(prefix) <= Len(s)
    /\ SubSeq(s, 1, Len(prefix)) = prefix

\* sub in s
Contains(s, sub) ==
    \E k \in 0..(Len(s) - Len(sub)) : SubSeq(s, k + 1, k + Len(sub)) = sub

\* truth value of a dict-or-None argument: None and {} are falsy
Truthy(opt) == opt # None /\ DOMAIN opt[1] # {}

(***************************************************************************)
(* detect_client_for_work                                                  *)
(***************************************************************************)

\* lines 22-24: a project pattern is a case-insensitive substring of project_name
ProjectHit(detection, project_name) ==
    \E i \in DOMAIN detection["projects"] :
        Contains(Lower(project_name), Lower(detection["projects"][i]))

\* lines 29-32: a folder pattern is a case-insensitive substring of the description
FolderHit(detection, phase_data) ==
    LET description == Lower(Get(phase_data, "description", <<>>))
    IN  \E i \in DOMAIN detection["folders"] :
            Contains(description, Lower(detection["folders"][i]))

\* lines 35-38: the ticket reference starts with a ticket prefix (case-sensitive)
TicketHit(detection, phase_data) ==
    LET ticket_ref == Get(phase_data, "ticketReference", <<>>)
    IN  \E i \in DOMAIN detection["ticketPrefixes"] :
            StartsWith(ticket_ref, detection["ticketPrefixes"][i])

\* lines 41-43: some tag of the phase is one of the rule's tags
TagHit(detection, phase_data) ==
    LET tags == Get(phase_data, "tags", <<>>)
    IN  \E i \in DOMAIN tags : tags[i] \in Range(detection["tags"])

\* lines 46-49: a project of projectsWorkedOn equals, ignoring case, a project pattern
GitlabHit(detection, gitlab_data) ==
    LET worked == Get(gitlab_data, "projectsWorkedOn", <<>>)
    IN  \E i \in DOMAIN worked :
            Lower(worked[i]) \in {Lower(p) : p \in Range(detection["projects"])}

\* lines 18-49: the body of the loop for one client: TRUE when it returns client_id
ClientHit(detection, project_name, phase_data, gitlab_data) ==
    \/ ProjectHit(detection, project_name)
    \/ /\ Truthy(phase_data)
       /\ \/ FolderHit(detection, phase_data[1])
          \/ TicketHit(detection, phase_data[1])
          \/ TagHit(detection, phase_data[1])
    \/ /\ Truthy(gitlab_data)
       /\ GitlabHit(detection, gitlab_data[1])

\* lines 15-16: the client the loop passes over
SkipClient(client_id) == client_id = "personal"

\* line 52: the value returned when the loop ends
FallbackClient(cfg) == cfg["settings"]["defaultClient"]

\* lines 14-52: the loop over detectionPriority from position i on
RECURSIVE DetectFrom(_, _, _, _, _)
DetectFrom(cfg, i, project_name, phase_data, gitlab_data) ==
    IF i > Len(cfg["detectionPriority"])
    THEN FallbackClient(cfg)
    ELSE LET client_id == cfg["detectionPriority"][i]
         IN  IF SkipClient(client_id)
             THEN DetectFrom(cfg, i + 1, project_name, phase_data, gitlab_data)
             ELSE IF ClientHit(cfg["clients"][client_id]["detection"],
                               project_name, phase_data, gitlab_data)
                  THEN client_id
                  ELSE DetectFrom(cfg, i + 1, project_name, phase_data, gitlab_data)

detect_client_for_work(cfg, project_name, phase_data, gitlab_data) ==
    DetectFrom(cfg, 1, project_name, phase_data, gitlab_data)

(***************************************************************************)
(* round(minutes / 60, 1)                                                  *)
(*                                                                         *)
(* minutes / 60 is the IEEE double nearest to the quotient and round(x, 1) *)
(* rounds the double's exact value to the nearest tenth, an exact tie to   *)
(* the even tenth.  The quotient is a tie between two tenths when          *)
(* minutes = 6k + 3, that is minutes / 60 = n / 20 with n odd.  Then       *)
(* either n / 20 is a double (5 divides n) and the tie goes to the even    *)
(* tenth, or the double lies above or below n / 20 and decides the result; *)
(* which one is found by dividing n by 5 in binary to 53 significant bits. *)
(***************************************************************************)

RECURSIVE BitLength(_)
BitLength(n) == IF n = 0 THEN 0 ELSE 1 + BitLength(n \div 2)

\* zero bits of r / 5 (0 < r < 5) after the binary point, before its first one bit
RECURSIVE LeadingZeros(_)
LeadingZeros(r) == IF 2 * r >= 5 THEN 0 ELSE 1 + LeadingZeros(2 * r)

\* 2^k mod 5
Pow2Mod5(k) == CASE k % 4 = 0 -> 1 [] k % 4 = 1 -> 2 [] k % 4 = 2 -> 4 [] OTHER -> 3

\* TRUE when the double nearest to n / 20 is greater than n / 20 (n odd, 5 not dividing n)
DoubleIsAbove(n) ==
    LET whole == n \div 5
        r     == n % 5
        steps == IF whole >= 1 THEN 53 - BitLength(whole) ELSE LeadingZeros(r) + 53
    IN  2 * ((r * Pow2Mod5(steps)) % 5) > 5

\* round(minutes / 60, 1) for minutes >= 0, in tenths of an hour
RoundTenths(minutes) ==
    LET floor == minutes \div 6
        rem   == minutes % 6
        n     == minutes \div 3
    IN  IF rem < 3 THEN floor
        ELSE IF rem > 3 THEN floor + 1
        ELSE IF n % 5 = 0 THEN (IF floor % 2 = 0 THEN floor ELSE floor + 1)
        ELSE IF DoubleIsAbove(n) THEN floor + 1 ELSE floor

\* lines 98, 115: round(minutes / 60, 1), in tenths of an hour
RoundHours(minutes) ==
    IF minutes < 0 THEN 0 - RoundTenths(0 - minutes) ELSE RoundTenths(minutes)

(***************************************************************************)
(* total_billable += hours                                                 *)
(*                                                                         *)
(* The sum of two doubles is their exact sum rounded to 53 significant     *)
(* bits, a tie to the even neighbour.  The double nearest to a tenth of    *)
(* an hour, and so every sum of such doubles, is a whole number of units   *)
(* of 2^-56.  These numbers exceed 32-bit integers; a magnitude n is held  *)
(* as <<l0, l1, l2>> with n = l0 + l1 * 2^25 + l2 * 2^50 and l0, l1 below  *)
(* 2^25.                                                                   *)
(***************************************************************************)

Limb == 2 ^ 25

\* the element of a singleton.  Only({ F(v) : v \in {e} }) is F(e) with e
\* evaluated once.
Only(S) == CHOOSE x \in S : TRUE

\* <<l0, l1, l2>> with the carries of l0 and l1 moved up
Carried(l0, l1, l2) ==
    LET m1 == l1 + l0 \div Limb
    IN  <<l0 % Limb, m1 % Limb, l2 + m1 \div Limb>>

\* a + b
AddMag(a, b) == Carried(a[1] + b[1], a[2] + b[2], a[3] + b[3])

\* a - b for a >= b
SubMag(a, b) ==
    LET d0 == a[1] - b[1]
        w0 == IF d0 < 0 THEN 1 ELSE 0
        d1 == a[2] - b[2] - w0
        w1 == IF d1 < 0 THEN 1 ELSE 0
    IN  <<d0 + w0 * Limb, d1 + w1 * Limb, a[3] - b[3] - w1>>

\* a < b
LessMag(a, b) ==
    IF a[3] # b[3] THEN a[3] < b[3]
    ELSE IF a[2] # b[2] THEN a[2] < b[2]
    ELSE a[1] < b[1]

\* the number of bits of a
BitsOfMag(a) ==
    IF a[3] > 0 THEN 50 + BitLength(a[3])
    ELSE IF a[2] > 0 THEN 25 + BitLength(a[2])
    ELSE BitLength(a[1])

\* a without its lowest `drop` bits, rounded to the nearest, a tie to the even
\* neighbour; `more` says that a non-zero amount below the lowest bit was cut
\* off before
RoundAt(a, drop, more) ==
        IF drop <= 0 THEN a
        ELSE LET low  == IF drop <= 25 THEN a[1] % (2 ^ drop)
                         ELSE a[1] + Limb * (a[2] % (2 ^ (drop - 25)))
                 half == 2 ^ (drop - 1)
                 odd  == IF drop < 25 THEN (a[1] \div (2 ^ drop)) % 2 = 1
                         ELSE (a[2] \div (2 ^ (drop - 25))) % 2 = 1
                 up   == low > half \/ (low = half /\ (more \/ odd))
                 cut  == SubMag(a, <<low % Limb, low \div Limb, 0>>)
                 step == IF drop < 25 THEN <<2 ^ drop, 0, 0>>
                         ELSE <<0, 2 ^ (drop - 25), 0>>
             IN  IF up THEN AddMag(cut, step) ELSE cut

\* mag rounded to 53 significant bits
RoundSignificant(mag, more) ==
    Only({ Only({ RoundAt(a, drop, more) : drop \in {BitsOfMag(a) - 53} }) :
               a \in {mag} })

\* half of the even magnitude n
Halved(n) ==
    <<n[1] \div 2 + (n[2] % 2) * (Limb \div 2),
      n[2] \div 2 + (n[3] % 2) * (Limb \div 2),
      n[3] \div 2>>

\* the magnitude of the double nearest to t / 10 (0 <= t < 2^24), in units of
\* 2^-56: the whole part of t * 2^57 / 10, found limb by limb from the top,
\* rounded to 53 significant bits and halved
DoubleOfTenths(t) ==
    LET q2 == (128 * t) \div 10
        r2 == (128 * t) % 10
        q1 == (r2 * Limb) \div 10
        r1 == (r2 * Limb) % 10
        q0 == (r1 * Limb) \div 10
        r0 == (r1 * Limb) % 10
    IN  IF t = 0 THEN <<0, 0, 0>>
        ELSE Only({ Halved(n) : n \in {RoundSignificant(<<q0, q1, q2>>, r0 # 0)} })

\* round(x, 1) of t tenths as a double: sign and magnitude
FloatOfTenths(t) ==
    [neg |-> t < 0, mag |-> DoubleOfTenths(IF t < 0 THEN 0 - t ELSE t)]

\* x + y on doubles given by sign and magnitude
AddDoubles(x, y) ==
    IF x.neg = y.neg
    THEN [neg |-> x.neg, mag |-> RoundSignificant(AddMag(x.mag, y.mag), FALSE)]
    ELSE IF x.mag = y.mag THEN [neg |-> FALSE, mag |-> <<0, 0, 0>>]
    ELSE IF LessMag(x.mag, y.mag)
         THEN [neg |-> y.neg, mag |-> RoundSignificant(SubMag(y.mag, x.mag), FALSE)]
         ELSE [neg |-> x.neg, mag |-> RoundSignificant(SubMag(x.mag, y.mag), FALSE)]

\* total + hours
FloatAdd(total, hours) == Only({ AddDoubles(x, y) : x \in {total}, y \in {hours} })

\* the number a magnitude below 2^31 holds
ValueOfMag(a) == a[1] + Limb * a[2]

\* x - y as an integer number of units of 2^-56, for doubles that close
Distance(x, y) ==
    LET sign == IF x.neg THEN 0 - 1 ELSE 1
    IN  IF x.neg # y.neg THEN sign * ValueOfMag(AddMag(x.mag, y.mag))
        ELSE IF LessMag(x.mag, y.mag) THEN 0 - sign * ValueOfMag(SubMag(y.mag, x.mag))
        ELSE sign * ValueOfMag(SubMag(x.mag, y.mag))

\* sum - nearest, in units of 2^-56
FloatMinus(sum, nearest) == Only({ Distance(x, y) : x \in {sum}, y \in {nearest} })

\* the float of t tenths: round(x, 1), or a sum that came out as that double
Tenths(t) == [tenths |-> t, excess |-> 0]

\* total += hours[i] for i, i + 1, ..., in the order of the list
RECURSIVE FloatSumFrom(_, _, _)
FloatSumFrom(hours, i, total) ==
    IF i > Len(hours) THEN total
    ELSE FloatSumFrom(hours, i + 1, FloatAdd(total, FloatOfTenths(hours[i])))

RECURSIVE SumOfSeq(_)
SumOfSeq(hours) == IF hours = <<>> THEN 0 ELSE Head(hours) + SumOfSeq(Tail(hours))

\* the sum of the floats hours[1], hours[2], ... added from the left to 0.  The
\* tenth nearest to it is the sum of the tenths, the errors being far below
\* half a tenth.
SumFromLeft(hours, tenths, addends) ==
    IF Len(addends) <= 1 THEN Tenths(tenths)
    ELSE [tenths |-> tenths,
          excess |-> FloatMinus(FloatSumFrom(addends, 1, FloatOfTenths(0)),
                                FloatOfTenths(tenths))]

\* the addends are the hours other than 0: x + 0.0 is x
FloatSum(hours) ==
    Only({ SumFromLeft(h, tenths, addends) :
               tenths \in {SumOfSeq(hours)},
               addends \in {SelectSeq(hours, LAMBDA x : x # 0)},
               h \in {hours} })

(***************************************************************************)
(* update_timesheet_with_multi_client                                      *)
(***************************************************************************)

\* lines 58-60: the tracking dicts before the loop.  `order` is the order of
\* the keys of client_minutes, a dict keeping its keys as they were inserted.
NoTracking(phases) ==
    [phases |-> phases, client_minutes |-> <<>>, order |-> <<>>,
     client_projects |-> <<>>, client_tickets |-> <<>>, error |-> "none"]

\* a rewrite that first turns a meeting into client_work and looks at the client
\* only for the other phases (faulty variant of RewrittenCategory)
RewrittenMeetingFirst(phase, client_id) ==
    IF phase["category"] = "meeting" THEN "client_work"
    ELSE IF client_id = "personal" THEN "side_project" ELSE "client_work"

\* lines 86-90: the category a classified phase is given
RewrittenCategory(phase, client_id) ==
    IF client_id = "personal" THEN "side_project" ELSE "client_work"

\* a filter that also classifies side_project phases (faulty variant of IsClassified)
IsClassifiedOrSideProject(phase) ==
    phase["category"] \in {"client_work", "meeting", "side_project"}

\* line 64: the phases that are classified
IsClassified(phase) == phase["category"] \in {"client_work", "meeting"}

\* an accumulation that overwrites the client's total (faulty variant of AddMinutes)
SetMinutes(client_minutes, client_id, minutes) ==
    Put(client_minutes, client_id, minutes)

\* lines 72-77: client_minutes[client_id] += minutes, the entry created at 0
AddMinutes(client_minutes, client_id, minutes) ==
    Put(client_minutes, client_id, Get(client_minutes, client_id, 0) + minutes)

\* lines 74-75, 79-84: s[client_id].add(value) when value is non-empty; the set
\* is created empty with the client's first phase
AddSeen(seen, client_id, value) ==
    Put(seen, client_id,
        Get(seen, client_id, {}) \cup (IF value # <<>> THEN {value} ELSE {}))

\* lines 74-90: the body of the loop for a classified phase, once
\* detect_client_for_work has returned client_id
Tracked(acc, i, phase, project_name, client_id) ==
    LET tagged == Put(phase, "clientId", client_id)
        opened == Put(acc.client_minutes, client_id,
                      Get(acc.client_minutes, client_id, 0))
        order == IF client_id \in DOMAIN acc.client_minutes
                 THEN acc.order ELSE Append(acc.order, client_id)
    IN  IF "durationMinutes" \notin DOMAIN phase
        THEN [acc EXCEPT !.phases[i] = tagged,
                         !.client_minutes = opened,
                         !.order = order,
                         !.client_projects = AddSeen(@, client_id, <<>>),
                         !.client_tickets = AddSeen(@, client_id, <<>>),
                         !.error = "KeyError"]
        ELSE [acc EXCEPT
                !.phases[i] =
                    Put(tagged, "category", RewrittenCategory(phase, client_id)),
                !.client_minutes =
                    AddMinutes(@, client_id, phase["durationMinutes"]),
                !.order = order,
                !.client_projects = AddSeen(@, client_id, project_name),
                !.client_tickets =
                    AddSeen(@, client_id, Get(phase, "ticketReference", <<>>))]

\* lines 64-90: the loop body for phase i.  A missing key raises KeyError and
\* leaves what was written before it.
PhaseStep(cfg, gitlab_data, acc, i) ==
    IF "category" \notin DOMAIN acc.phases[i]
    THEN [acc EXCEPT !.error = "KeyError"]
    ELSE IF ~IsClassified(acc.phases[i])
    THEN acc
    ELSE Tracked(acc, i, acc.phases[i], Get(acc.phases[i], "projectName", <<>>),
                 detect_client_for_work(
                     cfg, Get(acc.phases[i], "projectName", <<>>),
                     Some(acc.phases[i]), gitlab_data))

\* lines 63-90: the loop over timelinePhases from position i on
RECURSIVE PhaseLoop(_, _, _, _)
PhaseLoop(cfg, gitlab_data, acc, i) ==
    IF i > Len(acc.phases) \/ acc.error # "none"
    THEN acc
    ELSE PhaseLoop(cfg, gitlab_data, PhaseStep(cfg, gitlab_data, acc, i), i + 1)

\* lines 97-103: client_hours, the hours of every tracked client but "personal"
ClientHours(client_minutes) ==
    [c \in DOMAIN client_minutes \ {"personal"} |-> RoundHours(client_minutes[c])]

\* lines 94, 96-103: total_billable, the rounded hours of the clients other
\* than "personal" added as floats to 0 in the order of client_minutes
TotalBillable(client_minutes, order) ==
    Only({ FloatSum(hours) :
               hours \in { [i \in 1..Len(billed) |-> RoundHours(minutes[billed[i]])] :
                              billed \in {SelectSeq(order, LAMBDA c : c # "personal")},
                              minutes \in {client_minutes} } })

\* the minutes of the clients `keys` together
RECURSIVE MinutesOver(_, _)
MinutesOver(client_minutes, keys) ==
    IF keys = {} THEN 0
    ELSE LET k == CHOOSE x \in keys : TRUE
         IN  client_minutes[k] + MinutesOver(client_minutes, keys \ {k})

\* side project hours summed over every tracked client (faulty variant of SideProjectHours)
SideProjectHoursOfAll(client_minutes) ==
    RoundHours(MinutesOver(client_minutes, DOMAIN client_minutes))

\* lines 95, 99-100: side_project_hours
SideProjectHours(client_minutes) ==
    IF "personal" \in DOMAIN client_minutes
    THEN RoundHours(client_minutes["personal"])
    ELSE 0

\* lines 111-118: client_summary.  projects and tickets are list(set(...)), whose
\* order Python leaves open; they are held as sets.
ClientSummary(acc) ==
    [c \in { c \in DOMAIN acc.client_minutes :
                c # "personal" \/ acc.client_minutes[c] > 0 } |->
        [hours |-> RoundHours(acc.client_minutes[c]),
         projects |-> Get(acc.client_projects, c, {}),
         tickets |-> Get(acc.client_tickets, c, {})]]

\* lines 123-128: data["clientId"]
PrimaryClient(client_hours) ==
    IF Cardinality(DOMAIN client_hours) = 0 THEN "personal"
    ELSE IF Cardinality(DOMAIN client_hours) = 1
         THEN CHOOSE c \in DOMAIN client_hours : TRUE
         ELSE "multiple"

\* lines 92-130: the record and the locals once the loop has left acc
AfterLoop(record, acc) ==
    LET looped == IF "timelinePhases" \in DOMAIN record
                  THEN Put(record, "timelinePhases", acc.phases) ELSE record
        client_hours == ClientHours(acc.client_minutes)
        side == SideProjectHours(acc.client_minutes)
        summary == Put(Put(Put(looped["timeSummary"],
                        "billableHours",
                        TotalBillable(acc.client_minutes, acc.order)),
                        "sideProjectHours", side),
                        "clientHours",
                        IF DOMAIN client_hours # {} THEN client_hours
                        ELSE ("personal" :> side))
    IN  IF acc.error # "none" \/ "timeSummary" \notin DOMAIN record
        THEN [data |-> looped, client_minutes |-> acc.client_minutes,
              client_hours |-> client_hours, error |-> "KeyError"]
        ELSE [data |-> Put(Put(Put(looped, "timeSummary", summary),
                           "clientSummary", ClientSummary(acc)),
                           "clientId", PrimaryClient(client_hours)),
              client_minutes |-> acc.client_minutes,
              client_hours |-> client_hours, error |-> "none"]

\* lines 54-130: the record after the call and the call's locals
update_timesheet_with_multi_client(cfg, record) ==
    AfterLoop(record,
              PhaseLoop(cfg,
                        IF "gitlabActivity" \in DOMAIN record
                        THEN Some(record["gitlabActivity"]) ELSE None,
                        NoTracking(Get(record, "timelinePhases", <<>>)), 1))

(***************************************************************************)
(* Inputs: rule stores, phases and gitlabActivity values                   *)
(***************************************************************************)

\* the detection dict of a client (create_default_config / add_client layout)
Detection(projects, folders, ticketPrefixes, tags) ==
    [folders |-> folders, projects |-> projects, gitlabPrefixes |-> <<>>,
     ticketPrefixes |-> ticketPrefixes, tags |-> tags]

\* the rules a non-default client may carry: none, or one pattern in one field.
\* The pattern is the single upper-case letter `letter`, the tag is `tag`.
RuleChoices(letter, tag) ==
    { Detection(<<>>, <<>>, <<>>, <<>>),
      Detection(<< <<letter>> >>, <<>>, <<>>, <<>>),
      Detection(<<>>, << <<letter>> >>, <<>>, <<>>),
      Detection(<<>>, <<>>, << <<letter>> >>, <<>>),
      Detection(<<>>, <<>>, <<>>, <<tag>>) }

\* a client as add_client stores it (no isDefault key)
Client(detection) == [detection |-> detection]

\* the "personal" client of create_default_config
PersonalClient ==
    [isDefault |-> TRUE,
     detection |-> Detection(<<>>, <<>>, <<>>,
                             <<"personal", "side-project", "non-billable">>)]

Permutations3(a, b, c) ==
    { <<a, b, c>>, <<a, c, b>>, <<b, a, c>>, <<b, c, a>>, <<c, a, b>>, <<c, b, a>> }

\* a store with the clients acme, beta and the default client `dflt`
Store(acme, beta, dflt, dfltClient, priority) ==
    [clients |-> ("acme" :> Client(acme)) @@ ("beta" :> Client(beta))
                 @@ (dflt :> dfltClient),
     detectionPriority |-> priority,
     settings |-> [defaultClient |-> dflt]]

\* rule stores whose default client is "personal", in every priority order
Stores ==
    { Store(a, b, "personal", PersonalClient, p) :
        a \in RuleChoices("A", "ta"), b \in RuleChoices("B", "tb"),
        p \in Permutations3("acme", "beta", "personal") }

\* one optional key of a dict: absent, or present with one of `values`
Optional(key, values) == {<<>>} \cup {key :> v : v \in values}

ProjectNames == { <<>>, <<"a", "B">>, <<"x", "b">> }

Descriptions == { <<"B", "a">>, <<"x", "a">> }

TicketReferences == { <<"A", "x">>, <<"a", "x">>, <<"x", "A">>, <<"B", "x">> }

TagLists == { <<>>, <<"ta">>, <<"tx", "tb">>, <<"ta", "tb">>, <<"personal">> }

\* the matchable part of a phase
PhaseTexts ==
    { p @@ d @@ t @@ g :
        p \in Optional("projectName", ProjectNames),
        d \in Optional("description", Descriptions),
        t \in Optional("ticketReference", TicketReferences),
        g \in Optional("tags", TagLists) }

\* data.get("gitlabActivity"): None, or a dict with or without projectsWorkedOn
GitlabArgs ==
    { None,
      Some([totalCommits |-> 1]),
      Some([projectsWorkedOn |-> << <<"a">> >>]),
      Some([projectsWorkedOn |-> << <<"a", "B">>, <<"b">> >>]) }

NoRecord == [timelinePhases |-> <<>>]

NoLocals == [client_minutes |-> <<>>, client_hours |-> <<>>, error |-> "none"]

(***************************************************************************)
(* SpecDetect: one call of detect_client_for_work as line 65-66 makes it   *)
(***************************************************************************)

InitDetect ==
    /\ config \in Stores
    /\ data = NoRecord
    /\ input = NoRecord
    /\ locals = NoLocals
    /\ runs = 0
    /\ call = None
    /\ file = Some(config)

\* lines 65-66: project_name = phase.get("projectName", ""), then the call
DetectCall ==
    /\ call = None
    /\ \E text \in PhaseTexts, gitlab_data \in GitlabArgs :
        LET phase == ("category" :> "client_work") @@ text
            project_name == Get(phase, "projectName", <<>>)
        IN  call' = Some([project_name |-> project_name,
                          phase_data |-> phase,
                          gitlab_data |-> gitlab_data,
                          result |-> detect_client_for_work(
                                         config, project_name, Some(phase), gitlab_data)])
    \* lines 10-52 read CLIENT_CONFIG and assign to none of it
    /\ UNCHANGED <<config, data, input, locals, runs, file>>

NextDetect == DetectCall

SpecDetect == InitDetect /\ [][NextDetect]_vars

(***************************************************************************)
(* Spec: update_timesheet_with_multi_client applied to a daily record,     *)
(* and applied again to its own output                                     *)
(***************************************************************************)

\* phases of a record
MaxPhases == 2

\* calls of update_timesheet_with_multi_client on one record
MaxRuns == 2

Categories == {"client_work", "meeting", "side_project", "break"}

Durations == {0, 15, 20}

\* acme is matched by project name, beta by tag
EngineStores ==
    { Store(Detection(<< <<"A">> >>, <<>>, <<>>, <<>>),
            Detection(<<>>, <<>>, <<>>, <<"tb">>),
            "personal", PersonalClient, p) :
        p \in { <<"acme", "beta", "personal">>, <<"beta", "acme", "personal">> } }

\* nothing to match; matched by acme and beta; matched by beta
EngineTexts ==
    { <<>>,
      [projectName |-> <<"a", "B">>, tags |-> <<"tx", "tb">>],
      [ticketReference |-> <<"B", "x">>, tags |-> <<"tb">>] }

EnginePhases ==
    { [category |-> c, durationMinutes |-> m] @@ t :
        c \in Categories, m \in Durations, t \in EngineTexts }

RECURSIVE SeqsUpTo(_, _)
SeqsUpTo(S, n) ==
    IF n = 0 THEN {<<>>}
    ELSE LET shorter == SeqsUpTo(S, n - 1)
         IN  shorter \cup { Append(q, x) : q \in { r \in shorter : Len(r) = n - 1 }, x \in S }

\* gitlabActivity: absent, or naming a project of acme
EngineGitlab == Optional("gitlabActivity", {[projectsWorkedOn |-> << <<"a">> >>]})

Records ==
    { [timelinePhases |-> phases,
       timeSummary |-> [billableHours |-> 0, sideProjectHours |-> 0]] @@ g :
        phases \in SeqsUpTo(EnginePhases, MaxPhases), g \in EngineGitlab }

InitWith(stores) ==
    /\ config \in stores
    /\ data \in Records
    /\ input = data
    /\ locals = NoLocals
    /\ runs = 0
    /\ call = None
    /\ file = Some(config)

Init == InitWith(EngineStores)

\* main(), lines 277-284: one call on the record; the record is mutated in place
Update ==
    /\ runs < MaxRuns
    /\ locals.error = "none"
    /\ \E out \in {update_timesheet_with_multi_client(config, data)} :
           /\ data' = out.data
           /\ locals' = [client_minutes |-> out.client_minutes,
                         client_hours |-> out.client_hours,
                         error |-> out.error]
    /\ input' = data
    /\ runs' = runs + 1
    \* lines 54-130 read CLIENT_CONFIG (through detect_client_for_work) and
    \* assign to none of it
    /\ UNCHANGED <<config, call, file>>

Next == Update

Spec == Init /\ [][Next]_vars

(***************************************************************************)
(* SpecAnyDefault: the same calls on rule stores whose default client has  *)
(* any id ("personal", or "internal" in a store without "personal")        *)
(***************************************************************************)

\* the default client of a store that names it "internal"
InternalClient == [isDefault |-> TRUE, detection |-> Detection(<<>>, <<>>, <<>>, <<>>)]

AnyDefaultStores ==
    EngineStores \cup
    { Store(Detection(<< <<"A">> >>, <<>>, <<>>, <<>>),
            Detection(<<>>, <<>>, <<>>, <<"tb">>),
            "internal", InternalClient, <<"acme", "beta", "internal">>) }

InitAnyDefault == InitWith(AnyDefaultStores)

SpecAnyDefault == InitAnyDefault /\ [][Next]_vars

(***************************************************************************)
(* The rule store and the matching rules in the specification's terms      *)
(***************************************************************************)

IsDefaultRule(cfg, id) == Get(cfg["clients"][id], "isDefault", FALSE)

NonDefaultRules(cfg) == { id \in DOMAIN cfg["clients"] : ~IsDefaultRule(cfg, id) }

DefaultRuleId(cfg) == CHOOSE id \in DOMAIN cfg["clients"] : IsDefaultRule(cfg, id)

PriorityPosition(cfg, id) ==
    CHOOSE i \in DOMAIN cfg["detectionPriority"] : cfg["detectionPriority"][i] = id

\* projectNames: a pattern is a case-insensitive substring of the phase's project name
MatchesByProjectName(cfg, id, phase) ==
    \E pattern \in Range(cfg["clients"][id]["detection"]["projects"]) :
        Contains(Lower(Get(phase, "projectName", <<>>)), Lower(pattern))

\* folderSubstrings: a pattern is a case-insensitive substring of the description
MatchesByDescription(cfg, id, phase) ==
    \E pattern \in Range(cfg["clients"][id]["detection"]["folders"]) :
        Contains(Lower(Get(phase, "description", <<>>)), Lower(pattern))

\* ticketPrefixes: the ticket reference starts with a pattern
MatchesByTicket(cfg, id, phase) ==
    \E pattern \in Range(cfg["clients"][id]["detection"]["ticketPrefixes"]) :
        StartsWith(Get(phase, "ticketReference", <<>>), pattern)

\* tags: the phase's tags and the rule's tags intersect
MatchesByTags(cfg, id, phase) ==
    Range(Get(phase, "tags", <<>>))
        \cap Range(cfg["clients"][id]["detection"]["tags"]) # {}

\* the rule matches the phase through one of its four phase-level fields
MatchesPhase(cfg, id, phase) ==
    \/ MatchesByProjectName(cfg, id, phase)
    \/ MatchesByDescription(cfg, id, phase)
    \/ MatchesByTicket(cfg, id, phase)
    \/ MatchesByTags(cfg, id, phase)

MatchingRules(cfg, phase) ==
    { id \in NonDefaultRules(cfg) : MatchesPhase(cfg, id, phase) }

FirstMatchingRule(cfg, phase) ==
    CHOOSE id \in MatchingRules(cfg, phase) :
        \A other \in MatchingRules(cfg, phase) :
            PriorityPosition(cfg, id) <= PriorityPosition(cfg, other)

\* the projectsWorkedOn list the call was given (empty when none was)
SuppliedProjects(gitlab_data) ==
    IF Truthy(gitlab_data) THEN Get(gitlab_data[1], "projectsWorkedOn", <<>>) ELSE <<>>

PhaseFields == {"projectName", "description", "ticketReference", "tags"}

(***************************************************************************)
(* Claims about detect_client_for_work (SpecDetect)                        *)
(***************************************************************************)

\* C1: priority precedence.  Every call returns the id of the first
\* non-default rule, in detectionPriority order, that matches the phase.
C1_PriorityPrecedence ==
    (/\ call # None
     /\ MatchingRules(config, call[1].phase_data) # {})
        => call[1].result = FirstMatchingRule(config, call[1].phase_data)

\* C2: fallthrough to default.  When no non-default rule matches the phase
\* the call returns the default rule's id; a phase with none of the four
\* matchable fields is assigned the default client.
C2_FallthroughToDefault ==
    call # None
        => /\ MatchingRules(config, call[1].phase_data) = {}
                => call[1].result = DefaultRuleId(config)
           /\ DOMAIN call[1].phase_data \cap PhaseFields = {}
                => call[1].result = DefaultRuleId(config)

\* C10: the projectsWorkedOn list never overrides a direct phase match.  For a
\* phase that some non-default rule matches through a phase-level field, the
\* client returned with the list is the client returned without it.
C10_ListNeverOverridesPhaseMatch ==
    (/\ call # None
     /\ MatchingRules(config, call[1].phase_data) # {})
        => call[1].result = detect_client_for_work(
                                config, call[1].project_name,
                                Some(call[1].phase_data), None)

(***************************************************************************)
(* Claims about update_timesheet_with_multi_client (Spec, SpecAnyDefault)  *)
(***************************************************************************)

\* the latest call has returned
Returned == runs > 0 /\ locals.error = "none"

Before == input["timelinePhases"]

After == data["timelinePhases"]

\* the phases the latest call was to classify, by the category they came with
Eligible == { i \in DOMAIN Before : Before[i]["category"] \in {"client_work", "meeting"} }

\* the phases the latest call attributed to client c
AttributedTo(c) == { i \in Eligible : Get(After[i], "clientId", "none") = c }

RECURSIVE MinutesOf(_)
MinutesOf(indices) ==
    IF indices = {} THEN 0
    ELSE LET i == CHOOSE x \in indices : TRUE
         IN  Before[i]["durationMinutes"] + MinutesOf(indices \ {i})

\* h tenths of an hour is minutes / 60 rounded to one decimal
IsRoundedHours(h, minutes) == 6 * h - minutes <= 3 /\ minutes - 6 * h <= 3

\* C3: a phase whose category is neither client_work nor meeting is left as it
\* was (no clientId written, category unchanged) and adds to no client's total:
\* every client's total is the minutes of the eligible phases attributed to it.
C3_OnlyEligiblePhasesClassified ==
    Returned =>
        /\ \A i \in DOMAIN Before \ Eligible : After[i] = Before[i]
        /\ DOMAIN locals.client_minutes = { After[i]["clientId"] : i \in Eligible }
        /\ \A c \in DOMAIN locals.client_minutes :
                locals.client_minutes[c] = MinutesOf(AttributedTo(c))

\* C3 witness: a first call met a side_project phase of 20 minutes that carries
\* beta's tag and has no clientId, next to a classified phase, and left it alone.
C3_Witness ==
    /\ Returned
    /\ runs = 1
    /\ Eligible # {}
    /\ \E i \in DOMAIN Before \ Eligible :
        /\ Before[i]["category"] = "side_project"
        /\ Before[i]["durationMinutes"] = 20
        /\ "tb" \in Range(Get(Before[i], "tags", <<>>))
        /\ After[i] = Before[i]
        /\ "clientId" \notin DOMAIN After[i]

\* C4: every classified phase has category side_project if its assigned client
\* is the store's default client and client_work otherwise, whatever id the
\* default client has.
C4_CategoryFollowsDefaultClient ==
    Returned =>
        \A i \in Eligible :
            After[i]["category"] =
                IF After[i]["clientId"] = DefaultRuleId(config)
                THEN "side_project" ELSE "client_work"

\* C5: conservation of minutes.  The clients' totals add up to the duration of
\* the classified phases.
C5_ConservationOfMinutes ==
    Returned =>
        MinutesOver(locals.client_minutes, DOMAIN locals.client_minutes)
            = MinutesOf(Eligible)

\* C5 witness: two classified phases of 15 and 20 minutes went to one client,
\* whose total is 35.
C5_Witness ==
    /\ Returned
    /\ \E i, j \in Eligible :
        /\ Before[i]["durationMinutes"] = 15
        /\ Before[j]["durationMinutes"] = 20
        /\ After[i]["clientId"] = After[j]["clientId"]
        /\ locals.client_minutes[After[i]["clientId"]] = 35

\* the non-default clients with nonzero attributed minutes
WorkedClients ==
    { c \in NonDefaultRules(config) : MinutesOf(AttributedTo(c)) # 0 }

\* C6: data["clientId"] is "personal" when no non-default client has nonzero
\* minutes, the sole such client when there is one, "multiple" otherwise; a
\* client whose phases all have zero duration does not count.
C6_PrimaryClient ==
    Returned =>
        data["clientId"] =
            IF WorkedClients = {} THEN "personal"
            ELSE IF Cardinality(WorkedClients) = 1
                 THEN CHOOSE c \in WorkedClients : TRUE
                 ELSE "multiple"

\* C7: billableHours is the minutes of all non-default clients together,
\* divided by 60 and rounded once to one decimal.
C7_BillableRoundedOnce ==
    Returned =>
        /\ data["timeSummary"]["billableHours"].excess = 0
        /\ IsRoundedHours(
               data["timeSummary"]["billableHours"].tenths,
               MinutesOf(UNION { AttributedTo(c) : c \in NonDefaultRules(config) }))

\* C8: sideProjectHours is the default client's minutes divided by 60 and
\* rounded to one decimal, and 0 when no phase was attributed to the default
\* client.
C8_SideProjectHours ==
    Returned =>
        /\ IsRoundedHours(data["timeSummary"]["sideProjectHours"],
                          MinutesOf(AttributedTo(DefaultRuleId(config))))
        /\ AttributedTo(DefaultRuleId(config)) = {}
                => data["timeSummary"]["sideProjectHours"] = 0

\* C8 witness: the default client got 20 minutes and a non-default client got
\* minutes too; sideProjectHours is 0.3.
C8_Witness ==
    /\ Returned
    /\ MinutesOf(AttributedTo("personal")) = 20
    /\ WorkedClients # {}
    /\ data["timeSummary"]["sideProjectHours"] = 3

\* C9: idempotence per phase.  A second application to a processed record
\* leaves every phase's client id and category as the first application set them.
C9_IdempotentPerPhase ==
    (Returned /\ runs >= 2) =>
        \A i \in DOMAIN Before :
            /\ Get(After[i], "clientId", "none") = Get(Before[i], "clientId", "none")
            /\ After[i]["category"] = Before[i]["category"]

\* C9 witness: the second application met a meeting that the first had assigned
\* to the default client and rewritten, and a phase it classified again.
C9_Witness ==
    /\ Returned
    /\ runs = 2
    /\ \E i \in DOMAIN Before : Before[i]["category"] = "side_project"
                                /\ Get(Before[i], "clientId", "none") = "personal"
    /\ \E i \in Eligible : After[i]["clientId"] = "acme"


\* C11: the projectsWorkedOn list never assigns a client the phase's own fields
\* did not suggest.  When no non-default rule matches the phase by any of its
\* four fields the call returns the default client, whatever the list holds.
C11_ListNeverAssignsUnsuggestedClient ==
    (/\ call # None
     /\ MatchingRules(config, call[1].phase_data) = {})
        => call[1].result = DefaultRuleId(config)


(***************************************************************************)
(* SpecMalformed: the same calls on records that lack a key the code       *)
(* indexes: a phase without category or durationMinutes, a record without  *)
(* timeSummary                                                             *)
(***************************************************************************)

MalformedPhases ==
    { [category |-> "client_work", durationMinutes |-> 20,
       projectName |-> <<"a", "B">>],
      [category |-> "meeting", durationMinutes |-> 15],
      [category |-> "break", durationMinutes |-> 15],
      [category |-> "client_work", tags |-> <<"tb">>],
      [durationMinutes |-> 20, projectName |-> <<"a", "B">>] }

MalformedRecords ==
    { [timelinePhases |-> phases] @@ t :
        phases \in SeqsUpTo(MalformedPhases, MaxPhases),
        t \in Optional("timeSummary", {[billableHours |-> 0, sideProjectHours |-> 0]}) }

InitMalformed ==
    /\ config \in EngineStores
    /\ data \in MalformedRecords
    /\ input = data
    /\ locals = NoLocals
    /\ runs = 0
    /\ call = None
    /\ file = Some(config)

SpecMalformed == InitMalformed /\ [][Next]_vars

\* the latest call raised
Failed == runs > 0 /\ locals.error # "none"

\* C12: all-or-nothing processing.  When the call fails on a record the record
\* is as it was passed in: no phase has had clientId or category written.
C12_AllOrNothing == Failed => data = input


(***************************************************************************)
(* SpecLoaded: the rule store is whatever multi-client-config.json holds;  *)
(* lines 6-8 load it with json.load and check nothing                      *)
(***************************************************************************)

\* the default client without its isDefault mark
UnmarkedPersonalClient == Client(PersonalClient.detection)

\* acme marked isDefault beside the default client
MarkedClient(detection) == [isDefault |-> TRUE, detection |-> detection]

\* stores as a file can hold them: well formed, no client marked isDefault,
\* two clients marked isDefault
ConfigFiles ==
    EngineStores
    \cup { [s EXCEPT !["clients"]["personal"] = UnmarkedPersonalClient] : s \in EngineStores }
    \cup { [s EXCEPT !["clients"]["acme"] = MarkedClient(s["clients"]["acme"]["detection"])] :
             s \in EngineStores }

InitLoaded == InitWith(ConfigFiles)

SpecLoaded == InitLoaded /\ [][Next]_vars

DefaultRules(cfg) == { id \in DOMAIN cfg["clients"] : IsDefaultRule(cfg, id) }

\* C13: a store with no client or with more than one client marked isDefault
\* is rejected when it is loaded: no call on a record returns, and no phase of
\* a record is classified under it.
C13_MalformedStoreRejected ==
    Cardinality(DefaultRules(config)) # 1 =>
        /\ ~Returned
        /\ \A i \in DOMAIN After : "clientId" \notin DOMAIN After[i]


\* C17: the client summary has an entry for a client exactly when the client
\* has nonzero attributed minutes.
C17_SummaryEntryIffNonzeroMinutes ==
    Returned =>
        DOMAIN data["clientSummary"] =
            { c \in DOMAIN config["clients"] : MinutesOf(AttributedTo(c)) # 0 }


(***************************************************************************)
(* SpecAnyDuration: the same calls on records whose phases may have a      *)
(* negative durationMinutes                                                *)
(***************************************************************************)

SignedDurations == {-20, 0, 20}

SignedPhases ==
    { [category |-> c, durationMinutes |-> m] @@ t :
        c \in {"client_work", "meeting", "break"}, m \in SignedDurations, t \in EngineTexts }

SignedRecords ==
    { [timelinePhases |-> phases,
       timeSummary |-> [billableHours |-> 0, sideProjectHours |-> 0]] :
        phases \in SeqsUpTo(SignedPhases, MaxPhases) }

InitAnyDuration ==
    /\ config \in EngineStores
    /\ data \in SignedRecords
    /\ input = data
    /\ locals = NoLocals
    /\ runs = 0
    /\ call = None
    /\ file = Some(config)

SpecAnyDuration == InitAnyDuration /\ [][Next]_vars

\* the minutes of the phases `indices`, a non-positive duration counting as zero
RECURSIVE PositiveMinutesOf(_)
PositiveMinutesOf(indices) ==
    IF indices = {} THEN 0
    ELSE LET i == CHOOSE x \in indices : TRUE
             m == Before[i]["durationMinutes"]
         IN  (IF m > 0 THEN m ELSE 0) + PositiveMinutesOf(indices \ {i})

\* C18: a classified phase whose durationMinutes is zero or negative adds zero
\* to its client's minutes and to billableHours and sideProjectHours, and the
\* call does not fail on it.
C18_NonPositiveDurationAddsZero ==
    runs > 0 =>
        /\ locals.error = "none"
        /\ \A c \in DOMAIN locals.client_minutes :
               locals.client_minutes[c] = PositiveMinutesOf(AttributedTo(c))
        /\ \/ data["timeSummary"]["billableHours"].tenths > 0
           \/ /\ data["timeSummary"]["billableHours"].tenths = 0
              /\ data["timeSummary"]["billableHours"].excess >= 0
        /\ data["timeSummary"]["sideProjectHours"] >= 0


(***************************************************************************)
(* SpecDetectAnyDefault: one call of detect_client_for_work under stores   *)
(* whose default client is "personal" or "internal", the default client    *)
(* carrying a tag pattern of its own, in every priority order              *)
(***************************************************************************)

InternalTaggedClient ==
    [isDefault |-> TRUE, detection |-> Detection(<<>>, <<>>, <<>>, <<"tx">>)]

DetectStoresAnyDefault ==
    { Store(a, Detection(<<>>, <<>>, <<>>, <<"tb">>), "personal", PersonalClient, p) :
        a \in RuleChoices("A", "ta"), p \in Permutations3("acme", "beta", "personal") }
    \cup
    { Store(a, Detection(<<>>, <<>>, <<>>, <<"tb">>), "internal", InternalTaggedClient, p) :
        a \in RuleChoices("A", "ta"), p \in Permutations3("acme", "beta", "internal") }

InitDetectAnyDefault ==
    /\ config \in DetectStoresAnyDefault
    /\ data = NoRecord
    /\ input = NoRecord
    /\ locals = NoLocals
    /\ runs = 0
    /\ call = None
    /\ file = Some(config)

SpecDetectAnyDefault == InitDetectAnyDefault /\ [][NextDetect]_vars

\* the store with its default rule moved to the end of detectionPriority
MoveDefaultLast(cfg) ==
    [cfg EXCEPT !["detectionPriority"] =
        SelectSeq(cfg["detectionPriority"], LAMBDA id : ~IsDefaultRule(cfg, id))
            \o <<DefaultRuleId(cfg)>>]

\* C20: the default rule is evaluated last wherever it sits in
\* detectionPriority.  The call returns what it returns under the store with
\* the default rule moved to the end, and it does not return the default
\* client while a non-default rule placed after it matches the phase.
C20_DefaultEvaluatedLast ==
    call # None =>
        LET c == call[1]
        IN  /\ c.result = detect_client_for_work(MoveDefaultLast(config), c.project_name,
                                                 Some(c.phase_data), c.gitlab_data)
            /\ c.result = DefaultRuleId(config) =>
                   \A id \in MatchingRules(config, c.phase_data) :
                       PriorityPosition(config, id) < PriorityPosition(config, c.result)


(***************************************************************************)
(* client-config-manager.py: ClientConfigManager                           *)
(*                                                                         *)
(* A line typed at a prompt is a str, so a sequence of characters.  A str  *)
(* that becomes a client id or a tag is the TLA+ string spelled the same   *)
(* (TextOf), as in the stores of the engine.                               *)
(***************************************************************************)

\* the characters str.isspace() holds of: space, tab, line feed, carriage
\* return, form feed, U+000B, U+001C-U+001F, U+0085, U+00A0 and U+1680
Whitespace ==
    {"\t", "\n", "", "\f", "\r", "", "", "", "", " ", "", " ",
     " "}

\* c.isspace()
IsSpace(c) == c \in Whitespace

RECURSIVE LStrip(_)
LStrip(s) == IF s # <<>> /\ IsSpace(Head(s)) THEN LStrip(Tail(s)) ELSE s

RECURSIVE RStrip(_)
RStrip(s) ==
    IF s # <<>> /\ IsSpace(s[Len(s)]) THEN RStrip(SubSeq(s, 1, Len(s) - 1)) ELSE s

\* str.strip()
Strip(s) == RStrip(LStrip(s))

\* s.split(",")
RECURSIVE Split(_)
Split(s) ==
    IF \E i \in 1..Len(s) : s[i] = ","
    THEN LET first == CHOOSE i \in 1..Len(s) :
                          s[i] = "," /\ \A j \in 1..(i - 1) : s[j] # ","
         IN  <<SubSeq(s, 1, first - 1)>> \o Split(SubSeq(s, first + 1, Len(s)))
    ELSE <<s>>

\* [p.strip() for p in line.split(",") if p.strip()]
TypedPatterns(line) ==
    LET parts == Split(line)
    IN  SelectSeq([i \in 1..Len(parts) |-> Strip(parts[i])], LAMBDA p : p # <<>>)

\* the characters of the client ids and tags
TextOf ==
    [acme |-> <<"a", "c", "m", "e">>,
     beta |-> <<"b", "e", "t", "a">>,
     personal |-> <<"p", "e", "r", "s", "o", "n", "a", "l">>,
     ta |-> <<"t", "a">>,
     tb |-> <<"t", "b">>]

\* the id or tag spelled `chars`
Intern(chars) == CHOOSE s \in DOMAIN TextOf : TextOf[s] = chars

\* chars in self.config["clients"]
IsClientId(cfg, chars) == \E id \in DOMAIN cfg["clients"] : TextOf[id] = chars

\* (faulty variant of create_default_config) settings name a default client
\* that is not the client marked isDefault
DefaultConfigNamingOther(today) ==
    [version |-> "1.0.0",
     lastUpdated |-> today,
     clients |->
        ("personal" :>
            [name |-> <<"P", "e", "r", "s", "o", "n", "a", "l">>,
             displayName |-> <<"P", "e", "r", "s", "o", "n", "a", "l", "/", "S", "i", "d", "e", " ", "P", "r", "o", "j", "e", "c", "t", "s">>,
             color |-> <<"#", "9", "5", "E", "1", "D", "3">>,
             isDefault |-> TRUE,
             detection |-> Detection(<<>>, <<>>, <<>>,
                                     <<"personal", "side-project", "non-billable">>)]),
     detectionPriority |-> <<"personal">>,
     settings |-> [defaultClient |-> "default",
                   allowMultipleClientsPerDay |-> TRUE,
                   minimumBillableMinutes |-> 15,
                   roundBillableToNearest |-> 15]]

\* lines 28-55
create_default_config(today) ==
    [version |-> "1.0.0",
     lastUpdated |-> today,
     clients |->
        ("personal" :>
            [name |-> <<"P", "e", "r", "s", "o", "n", "a", "l">>,
             displayName |-> <<"P", "e", "r", "s", "o", "n", "a", "l", "/", "S", "i", "d", "e", " ", "P", "r", "o", "j", "e", "c", "t", "s">>,
             color |-> <<"#", "9", "5", "E", "1", "D", "3">>,
             isDefault |-> TRUE,
             detection |-> Detection(<<>>, <<>>, <<>>,
                                     <<"personal", "side-project", "non-billable">>)]),
     detectionPriority |-> <<"personal">>,
     settings |-> [defaultClient |-> "personal",
                   allowMultipleClientsPerDay |-> TRUE,
                   minimumBillableMinutes |-> 15,
                   roundBillableToNearest |-> 15]]


\* (faulty variant of AddRejected) only the empty id is refused
AddRejectedEmptyOnly(cfg, typed_id) == Lower(Strip(typed_id)) = <<>>

\* lines 70-71: client_id = input(...).strip().lower();
\* not client_id or client_id in self.config["clients"]
AddRejected(cfg, typed_id) ==
    LET client_id == Lower(Strip(typed_id))
    IN  client_id = <<>> \/ IsClientId(cfg, client_id)

\* (faulty variant of NewClient) the new client is marked as the default
NewClientMarkedDefault(name, display_name, color) ==
    [name |-> Strip(name),
     displayName |-> Strip(display_name),
     color |-> IF Strip(color) # <<>> THEN Strip(color) ELSE <<"#", "4", "E", "C", "D", "C", "4">>,
     isDefault |-> TRUE,
     detection |-> Detection(<<>>, <<>>, <<>>, <<>>)]

\* lines 76-92: the client structure built from the typed details
NewClient(name, display_name, color) ==
    [name |-> Strip(name),
     displayName |-> Strip(display_name),
     color |-> IF Strip(color) # <<>> THEN Strip(color) ELSE <<"#", "4", "E", "C", "D", "C", "4">>,
     detection |-> Detection(<<>>, <<>>, <<>>, <<>>)]

\* (faulty variant of InsertInPriority) the new id goes to the end of the list
AppendToPriority(priority, client_id) ==
    IF client_id \in Range(priority) THEN priority ELSE Append(priority, client_id)

\* (faulty variant of InsertInPriority) the new id is not listed
NotListed(priority, client_id) == priority

\* lines 95-101: list.index, list.insert, list.append
InsertInPriority(priority, client_id) ==
    IF client_id \in Range(priority) THEN priority
    ELSE IF "personal" \in Range(priority)
         THEN LET idx == CHOOSE i \in 1..Len(priority) :
                             /\ priority[i] = "personal"
                             /\ \A j \in 1..(i - 1) : priority[j] # "personal"
              IN  SubSeq(priority, 1, idx - 1) \o <<client_id>>
                      \o SubSeq(priority, idx, Len(priority))
         ELSE Append(priority, client_id)

\* the detection list a menu choice of lines 141-159 extends
KeyOfChoice(choice) ==
    CASE choice = <<"1">> -> "folders"
      [] choice = <<"2">> -> "projects"
      [] choice = <<"3">> -> "gitlabPrefixes"
      [] choice = <<"4">> -> "ticketPrefixes"
      [] choice = <<"5">> -> "tags"
      [] OTHER -> "none"

\* the typed patterns as the list holds them
PatternsFor(key, line) ==
    LET typed == TypedPatterns(line)
    IN  IF key = "tags" THEN [i \in 1..Len(typed) |-> Intern(typed[i])] ELSE typed

\* lines 130-166: the menu loop over the typed choices, until choice 7
RECURSIVE EditLoop(_, _)
EditLoop(detection, session) ==
    IF session = <<>> THEN detection
    ELSE LET choice == Strip(Head(session).choice)
             key == KeyOfChoice(choice)
         IN  IF choice = <<"7">> THEN detection
             ELSE EditLoop(IF key = "none" THEN detection
                           ELSE [detection EXCEPT
                                    ![key] = @ \o PatternsFor(key, Head(session).line)],
                           Tail(session))

DetectionKeys == {"folders", "projects", "gitlabPrefixes", "ticketPrefixes", "tags"}

\* lines 141-159: the patterns the session typed for the list `key` before its
\* closing choice 7
RECURSIVE TypedValues(_, _)
TypedValues(session, key) ==
    IF session = <<>> \/ Strip(Head(session).choice) = <<"7">> THEN {}
    ELSE (IF KeyOfChoice(Strip(Head(session).choice)) = key
          THEN Range(PatternsFor(key, Head(session).line)) ELSE {})
         \cup TypedValues(Tail(session), key)

\* the patterns a session typed, list by list
TypedIn(session) == [key \in DetectionKeys |-> TypedValues(session, key)]

\* list(set(values)): the distinct values in an order the hash seed decides
Orders(S) == { q \in [1..Cardinality(S) -> S] : Range(q) = S }

\* (faulty variant of WithoutDuplicates) the lists are left as the loop built them
WithDuplicates(detection) == {detection}

\* lines 169-171: every list of the detection dict without its duplicates
WithoutDuplicates(detection) ==
    { [folders |-> f, projects |-> p, gitlabPrefixes |-> g,
       ticketPrefixes |-> t, tags |-> a] :
        f \in Orders(Range(detection["folders"])),
        p \in Orders(Range(detection["projects"])),
        g \in Orders(Range(detection["gitlabPrefixes"])),
        t \in Orders(Range(detection["ticketPrefixes"])),
        a \in Orders(Range(detection["tags"])) }

\* lines 109-173: the configurations the session can leave.  client_id is
\* None when the menu calls it; the id is then read from typed_id.
edit_client_rules(cfg, client_id, typed_id, session) ==
    LET chars == IF client_id # None THEN TextOf[client_id[1]]
                 ELSE Lower(Strip(typed_id))
    IN  IF ~IsClientId(cfg, chars) THEN {cfg}
        ELSE LET id == Intern(chars)
                 edited == EditLoop(cfg["clients"][id]["detection"], session)
             IN  { [cfg EXCEPT !["clients"][id]["detection"] = d] :
                     d \in WithoutDuplicates(edited) }

\* lines 64-107: the configurations add_client can leave
add_client(cfg, typed, session) ==
    IF AddRejected(cfg, typed.client_id) THEN {cfg}
    ELSE LET client_id == Intern(Lower(Strip(typed.client_id)))
             added ==
                 [cfg EXCEPT
                     !["clients"] = Put(@, client_id,
                                        NewClient(typed.name, typed.display_name, typed.color)),
                     !["detectionPriority"] = InsertInPriority(@, client_id)]
         IN  IF Lower(typed.answer) = <<"y">>
             THEN edit_client_rules(added, Some(client_id), <<>>, session)
             ELSE {added}


\* lines 20-26: the content of the file when it exists, the default
\* configuration otherwise
load_config(on_disk, today) ==
    IF on_disk # None THEN on_disk[1] ELSE create_default_config(today)

\* line 59: self.config["lastUpdated"] = datetime.now().strftime("%Y-%m-%d")
save_config(cfg, today) == Put(cfg, "lastUpdated", today)

(***************************************************************************)
(* SpecManager: one run of the manager.  __init__ loads the configuration, *)
(* run_interactive takes the menu choices 1 (add_client), 2                *)
(* (edit_client_rules), 5 (save and exit) and 6 (exit without saving).     *)
(* The choices 3 and 4 print or export the configuration and an invalid    *)
(* choice prints a message; they change nothing that is modelled.          *)
(***************************************************************************)

\* menu choices taken in one run of run_interactive
MaxOps == 2

\* choices typed in one edit_client_rules session before the closing 7
MaxSteps == 2

\* datetime.now().strftime("%Y-%m-%d") when the manager starts
StartDates == {"2025-06-01"}

\* datetime.now().strftime("%Y-%m-%d") when the configuration is saved
Dates == {"2025-06-01", "2025-06-02"}

\* a file that an earlier run saved: the default configuration and the client
\* acme with a project pattern
SavedEarlier ==
    LET acme == NewClient(<<"A", "C", "M", "E">>,
                          <<"A", "c", "m", "e", " ", "C", "o", "r", "p">>, <<>>)
    IN  [create_default_config("2025-05-31") EXCEPT
            !["clients"] = Put(@, "acme", [acme EXCEPT !["detection"]["projects"] = << <<"A">> >>]),
            !["detectionPriority"] = <<"acme", "personal">>]

\* what config_path holds when the manager starts
ManagerFiles == {None, Some(SavedEarlier)}

\* the answers to the prompts of add_client
AddInputs ==
    [client_id : { <<>>, <<"\t", "A", "c", "m", "e", " ">>, <<"b", "e", "t", "a">>, <<"P", "E", "R", "S", "O", "N", "A", "L">> },
     name : { <<"A", "C", "M", "E", " ">> },
     display_name : { <<"A", "c", "m", "e", " ", "C", "o", "r", "p">> },
     color : { <<>>, <<"#", "F", "F", "6", "B", "6", "B">> },
     answer : { <<"n">>, <<"Y">> }]

\* a menu choice of the session and the line typed after it
EditSteps ==
    { [choice |-> <<"2">>, line |-> <<" ", "A", ",", "\t", "B", " ", ",", "A">>],
      [choice |-> <<" ", "5">>, line |-> <<"p", "e", "r", "s", "o", "n", "a", "l", ",", " ", "p", "e", "r", "s", "o", "n", "a", "l">>] }

Done == [choice |-> <<"7">>, line |-> <<>>]

Sessions == { Append(s, Done) : s \in SeqsUpTo(EditSteps, MaxSteps) }

\* what is typed at the menu of edit_client_rules: nothing when the operation
\* returns before its loop
SessionsRead(reached) == IF reached THEN Sessions ELSE {<<>>}

\* the answers to "Enter client ID to edit"
EditIds == { <<>>, <<"a", "c", "m", "e">>, <<" ", "B", "e", "t", "a">>, <<"p", "e", "r", "s", "o", "n", "a", "l">> }

\* lines 16-18, 286: ClientConfigManager(config_path)
InitManager ==
    /\ file \in ManagerFiles
    /\ config \in { load_config(file, today) : today \in StartDates }
    /\ input = config
    /\ data = NoRecord
    /\ locals = NoLocals
    /\ runs = 0
    /\ call = None

\* the menu loop of lines 242-277 has not been left
InMenu == IF call = None THEN TRUE ELSE call[1].op \notin {"save_config", "exit"}

\* the latest menu choice when nothing is typed after it
Chosen(op) ==
    Some([op |-> op, client_id |-> <<>>, rules |-> FALSE, typed |-> TypedIn(<<>>)])

\* lines 253-254: menu choice 1.  input keeps the configuration before the
\* operation, call what was typed.
AddClient ==
    /\ InMenu
    /\ runs < MaxOps
    /\ \E typed \in AddInputs :
        \E session \in SessionsRead(/\ ~AddRejected(config, typed.client_id)
                                    /\ Lower(typed.answer) = <<"y">>) :
            /\ call' = Some([op |-> "add_client",
                             client_id |-> Lower(Strip(typed.client_id)),
                             rules |-> Lower(typed.answer) = <<"y">>,
                             typed |-> TypedIn(session)])
            /\ config' \in add_client(config, typed, session)
    /\ input' = config
    /\ runs' = runs + 1
    /\ UNCHANGED <<data, locals, file>>

\* lines 256-257: menu choice 2
EditClientRules ==
    /\ InMenu
    /\ runs < MaxOps
    /\ \E typed_id \in EditIds :
        \E session \in SessionsRead(IsClientId(config, Lower(Strip(typed_id)))) :
            /\ call' = Some([op |-> "edit_client_rules",
                             client_id |-> Lower(Strip(typed_id)),
                             rules |-> TRUE,
                             typed |-> TypedIn(session)])
            /\ config' \in edit_client_rules(config, None, typed_id, session)
    /\ input' = config
    /\ runs' = runs + 1
    /\ UNCHANGED <<data, locals, file>>

\* lines 266-269, 57-61: menu choice 5 stamps the configuration with the day,
\* writes it to the file and leaves the loop
SaveAndExit ==
    /\ InMenu
    /\ runs < MaxOps
    /\ \E today \in Dates : config' = save_config(config, today)
    /\ file' = Some(config')
    /\ call' = Chosen("save_config")
    /\ input' = config
    /\ runs' = runs + 1
    /\ UNCHANGED <<data, locals>>

\* lines 271-274: menu choice 6 answered "y" leaves the loop
ExitWithoutSaving ==
    /\ InMenu
    /\ runs < MaxOps
    /\ call' = Chosen("exit")
    /\ input' = config
    /\ runs' = runs + 1
    /\ UNCHANGED <<config, data, locals, file>>

NextManager == AddClient \/ EditClientRules \/ SaveAndExit \/ ExitWithoutSaving

SpecManager == InitManager /\ [][NextManager]_vars



(***************************************************************************)
(* The configuration manager's operations in the specification's terms     *)
(***************************************************************************)

\* the latest menu choice was add_client
Added == call # None /\ call[1].op = "add_client"

\* the id typed for the latest operation, stripped and lower-cased
TypedId == call[1].client_id

\* the configuration before the latest operation already had the typed id
IdWasPresent == IsClientId(input, TypedId)

\* C14: starting from the default configuration, after any sequence of
\* add_client and edit_client_rules operations, rejected ones included,
\* exactly one client of the store has isDefault true.
C14_ExactlyOneDefault == Cardinality(DefaultRules(config)) = 1

\* a client was added with rules, then the default client's rules were edited
C14_Witness ==
    /\ runs = 2
    /\ call[1].op = "edit_client_rules"
    /\ TypedId = TextOf["personal"]
    /\ "acme" \in DOMAIN config["clients"]
    /\ config["clients"]["acme"]["detection"]["projects"] # <<>>

\* C15: add_client of a new id puts the id into detectionPriority immediately
\* before the default rule and leaves the ids that were there in the order
\* they had.
C15_InsertedBeforeDefault ==
    (Added /\ TypedId # <<>> /\ ~IdWasPresent) =>
        LET before == input["detectionPriority"]
            after == config["detectionPriority"]
            id == Intern(TypedId)
            pos == PriorityPosition(config, id)
        IN  /\ Len(after) = Len(before) + 1
            /\ pos < Len(after)
            /\ IsDefaultRule(config, after[pos + 1])
            /\ SelectSeq(after, LAMBDA other : other # id) = before

\* beta was added to a store that already listed acme before the default
C15_Witness ==
    /\ Added
    /\ input["detectionPriority"] = <<"acme", "personal">>
    /\ config["detectionPriority"] = <<"acme", "beta", "personal">>

\* C16: add_client with an id the store already has, or with an empty id, is
\* rejected: the whole configuration (every client's fields and detection
\* patterns, detectionPriority) is as it was.
C16_DuplicateOrEmptyIdRejected ==
    (Added /\ (TypedId = <<>> \/ IdWasPresent)) => config = input

\* acme was typed a second time when the store had acme with its patterns
C16_Witness ==
    /\ Added
    /\ TypedId = TextOf["acme"]
    /\ IdWasPresent
    /\ input["clients"]["acme"]["detection"]["projects"] # <<>>
    /\ config = input


(***************************************************************************)
(* Rule priority and field order (SpecDetect)                              *)
(***************************************************************************)

MatchesByField(cfg, id, phase, field) ==
    CASE field = "projectName" -> MatchesByProjectName(cfg, id, phase)
      [] field = "description" -> MatchesByDescription(cfg, id, phase)
      [] field = "ticketReference" -> MatchesByTicket(cfg, id, phase)
      [] field = "tags" -> MatchesByTags(cfg, id, phase)

\* the fields through which rule id matches the phase
MatchedFields(cfg, id, phase) ==
    { field \in PhaseFields : MatchesByField(cfg, id, phase, field) }

\* C21: rule priority dominates field order.  A rule that matches the phase
\* only through its tags is returned when the other rule, listed after it,
\* matches by project name; and a rule that matches through a single field,
\* whichever it is, is returned when no rule listed before it matches.
C21_RulePriorityDominatesFieldOrder ==
    call # None
        => \A id \in NonDefaultRules(config) :
            LET phase == call[1].phase_data
                earlier == { other \in NonDefaultRules(config) :
                               PriorityPosition(config, other) < PriorityPosition(config, id) }
            IN  /\ (/\ MatchedFields(config, id, phase) = {"tags"}
                    /\ \A other \in NonDefaultRules(config) \ {id} :
                           /\ other \notin earlier
                           /\ MatchesByProjectName(config, other, phase))
                       => call[1].result = id
                /\ \A field \in PhaseFields :
                       (/\ MatchedFields(config, id, phase) = {field}
                        /\ \A other \in earlier : ~MatchesPhase(config, other, phase))
                           => call[1].result = id


\* the latest operation ran an edit_client_rules session to its end: menu
\* choice 2 on a client of the store, or add_client of a new id answered "y"
EditRan ==
    /\ call # None
    /\ \/ call[1].op = "edit_client_rules" /\ IdWasPresent
       \/ call[1].op = "add_client" /\ TypedId # <<>> /\ ~IdWasPresent /\ call[1].rules

\* the detection lists the session started from
DetectionBefore ==
    IF call[1].op = "add_client" THEN Detection(<<>>, <<>>, <<>>, <<>>)
    ELSE input["clients"][Intern(TypedId)]["detection"]

\* C22: after edit_client_rules completes for a client, each of the client's
\* five pattern lists holds no value twice and holds exactly the values that
\* were in the list before or were typed for it during the session.
C22_ListsAreSetsAfterEdit ==
    EditRan =>
        \A key \in DetectionKeys :
            LET after == config["clients"][Intern(TypedId)]["detection"][key]
            IN  /\ Cardinality(Range(after)) = Len(after)
                /\ Range(after) = Range(DetectionBefore[key]) \cup call[1].typed[key]

\* the default client's rules were edited: a project was typed twice in one
\* line and the tag "personal", which the list already held, was typed again
C22_Witness ==
    /\ EditRan
    /\ call[1].op = "edit_client_rules"
    /\ TypedId = TextOf["personal"]
    /\ Cardinality(call[1].typed["projects"]) = 2
    /\ "personal" \in call[1].typed["tags"]
    /\ "personal" \in Range(input["clients"]["personal"]["detection"]["tags"])
    /\ Len(config["clients"]["personal"]["detection"]["tags"]) = 3


(***************************************************************************)
(* SpecDetectEmptyPattern: one call of detect_client_for_work under stores *)
(* whose client acme has the empty string among its project patterns       *)
(***************************************************************************)

EmptyPatternStores ==
    { Store(Detection(projects, <<>>, <<>>, <<>>), b, "personal", PersonalClient, p) :
        projects \in { << <<>> >>, << <<"A">>, <<>> >> },
        b \in RuleChoices("B", "tb"),
        p \in Permutations3("acme", "beta", "personal") }

InitDetectEmptyPattern ==
    /\ config \in EmptyPatternStores
    /\ data = NoRecord
    /\ input = NoRecord
    /\ locals = NoLocals
    /\ runs = 0
    /\ call = None
    /\ file = Some(config)

SpecDetectEmptyPattern == InitDetectEmptyPattern /\ [][NextDetect]_vars

\* C23: a phase whose projectName is empty or absent is never matched through
\* the project patterns, whatever the pattern lists hold.  When no rule matches
\* such a phase by description, ticket reference or tags, the call (no
\* projectsWorkedOn list supplied) returns the default client.
C23_EmptyProjectNameNeverMatches ==
    (/\ call # None
     /\ SuppliedProjects(call[1].gitlab_data) = <<>>
     /\ Get(call[1].phase_data, "projectName", <<>>) = <<>>
     /\ \A id \in NonDefaultRules(config) :
            /\ ~MatchesByDescription(config, id, call[1].phase_data)
            /\ ~MatchesByTicket(config, id, call[1].phase_data)
            /\ ~MatchesByTags(config, id, call[1].phase_data))
        => call[1].result = DefaultRuleId(config)


\* minutes / 60 in tenths of an hour, a half rounded away from zero
HalfAwayFromZero(minutes) ==
    IF minutes >= 0 THEN (minutes + 3) \div 6 ELSE -((3 - minutes) \div 6)

\* C25: hours are rounded half away from zero to one decimal.  Every client's
\* hours, and sideProjectHours, are the client's minutes / 60 with a half tenth
\* (minutes = 6k + 3, as 15 minutes = 0.25 h) going to the larger tenth.
C25_HoursRoundedHalfAwayFromZero ==
    Returned =>
        /\ \A c \in DOMAIN locals.client_hours :
               locals.client_hours[c] = HalfAwayFromZero(locals.client_minutes[c])
        /\ "personal" \in DOMAIN locals.client_minutes =>
               data["timeSummary"]["sideProjectHours"] =
                   HalfAwayFromZero(locals.client_minutes["personal"])

\* the totals the call wrote into the record
DayTotals(record) ==
    [billableHours |-> record["timeSummary"]["billableHours"],
     sideProjectHours |-> record["timeSummary"]["sideProjectHours"],
     clientHours |-> Get(record["timeSummary"], "clientHours", <<>>),
     clientSummary |-> record["clientSummary"],
     clientId |-> record["clientId"]]

\* C26: day totals are stable under re-application.  The call applied to its
\* own output writes the billableHours, sideProjectHours, clientHours,
\* clientSummary and clientId that the first application wrote.
C26_TotalsStableUnderReapplication ==
    (runs >= 2 /\ Returned) => DayTotals(data) = DayTotals(input)

\* the phases of the record that end with category side_project
EndAsSideProject == { i \in DOMAIN After : After[i]["category"] = "side_project" }

\* C27: after the call sideProjectHours is the total durationMinutes of all
\* phases whose final category is side_project, one that came with that
\* category included, divided by 60 and rounded to one decimal.
C27_SideProjectHoursCoverSideProjectPhases ==
    Returned =>
        data["timeSummary"]["sideProjectHours"] = RoundHours(MinutesOf(EndAsSideProject))


\* C29: starting from the default configuration, after any sequence of
\* add_client and edit_client_rules operations detectionPriority lists every
\* client id of the store exactly once, lists nothing that is not a client,
\* and ends with "personal".
C29_PriorityListsEveryClientOnce ==
    LET priority == config["detectionPriority"]
    IN  /\ Range(priority) = DOMAIN config["clients"]
        /\ Len(priority) = Cardinality(DOMAIN config["clients"])
        /\ priority[Len(priority)] = "personal"

\* two clients were added, the second with a rules session
C29_Witness ==
    /\ Added
    /\ call[1].rules
    /\ DOMAIN config["clients"] = {"acme", "beta", "personal"}
    /\ Len(config["detectionPriority"]) = 3

\* C30: on every store the configuration manager produces the three notions
\* of default client agree: settings.defaultClient is the id of the one client
\* with isDefault true and is the literal "personal" that the engine passes
\* over while matching, returns when nothing matches, and rewrites to
\* side_project and reports as sideProjectHours.
C30_DefaultNotionsAgree ==
    LET default == config["settings"]["defaultClient"]
        phase == [category |-> "client_work", durationMinutes |-> 20]
    IN  /\ DefaultRules(config) = {default}
        /\ default = "personal"
        /\ SkipClient(default)
        /\ detect_client_for_work(config, <<>>, Some(phase), None) = default
        /\ RewrittenCategory(phase, default) = "side_project"
        /\ SideProjectHours(AddMinutes(<<>>, default, 20)) = RoundHours(20)

\* a client was added and given rules, and the default client's rules were edited
C30_Witness ==
    /\ runs = 2
    /\ EditRan
    /\ TypedId = TextOf["personal"]
    /\ call[1].typed["projects"] # {}
    /\ DOMAIN config["clients"] = {"beta", "personal"}
    /\ config["clients"]["beta"]["detection"]["tags"] # <<>>


(***************************************************************************)
(* test-data/update-june-categorization.py: the binary variant             *)
(*   is_client_work, recalculate_hours, update_timesheet_categorization    *)
(***************************************************************************)

\* lines 7-31
CLIENT_WORK_PATTERNS ==
    [folders |->
        << <<"m", "e", "d", "i", "a", "h", "u", "i", "s">>,
           <<"c", "u", "e", "a", "p", "p", "-", "i", "o", "s">>,
           <<"c", "u", "e", "a", "p", "p", "a", "n", "d", "r", "o", "i", "d">>,
           <<"c", "h", "a", "m", "e", "l", "e", "o", "n">>,
           <<"f", "r", "o", "n", "t", "e", "n", "d", "-", "c", "h", "a", "m", "e", "l", "e", "o", "n">>,
           <<"m", "e", "h", "u", "-">>,
           <<"-", "w", "o", "r", "k", "t", "r", "e", "e", "-", "C", "A", "-">>,
           <<"-", "w", "o", "r", "k", "t", "r", "e", "e", "-", "A", "P", "P", "S", "-">> >>,
     projects |->
        << <<"C", "h", "a", "m", "e", "l", "e", "o", "n">>,
           <<"C", "u", "e", "A", "p", "p", " ", "i", "O", "S">>,
           <<"C", "u", "e", "A", "p", "p", " ", "A", "n", "d", "r", "o", "i", "d">>,
           <<"S", "p", "o", "r", "t", "i", "f", "y", " ", "S", "w", "i", "f", "t">>,
           <<"M", "e", "d", "i", "a", "h", "u", "i", "s">> >>,
     gitlab_prefixes |->
        << <<"m", "o", "b", "i", "l", "e", "/", "c", "u", "e", "a", "p", "p">>,
           <<"m", "o", "b", "i", "l", "e", "/", "c", "h", "a", "m", "e", "l", "e", "o", "n">>,
           <<"f", "r", "o", "n", "t", "e", "n", "d", "/", "c", "h", "a", "m", "e", "l", "e", "o", "n">>,
           <<"m", "e", "d", "i", "a", "h", "u", "i", "s", "/">> >>]

\* lines 33-59
SIDE_PROJECT_PATTERNS ==
    [folders |->
        << <<"m", "c", "p">>,
           <<"a", "c", "t", "i", "v", "i", "t", "y", "w", "a", "t", "c", "h", "-", "m", "c", "p">>,
           <<"t", "i", "m", "e", "s", "t", "o", "r", "y", "-", "m", "c", "p">>,
           <<"v", "i", "t", "a", "l", "-", "f", "l", "o", "w", "-", "m", "c", "p">>,
           <<"w", "i", "s", "p", "r", "-", "f", "l", "o", "w", "-", "m", "c", "p">>,
           <<"g", "i", "t", "l", "a", "b", "-", "m", "c", "p">>,
           <<"g", "i", "t", "-", "m", "c", "p">>,
           <<"o", "p", "e", "n", "s", "-", "t", "i", "m", "e", "-", "c", "h", "a", "t">>,
           <<"p", "e", "r", "s", "o", "n", "a", "l">>,
           <<"s", "i", "d", "e", "-", "p", "r", "o", "j", "e", "c", "t", "s">> >>,
     projects |->
        << <<"A", "c", "t", "i", "v", "i", "t", "y", "W", "a", "t", "c", "h", " ", "M", "C", "P">>,
           <<"T", "i", "m", "e", "S", "t", "o", "r", "y", " ", "M", "C", "P">>,
           <<"G", "i", "t", " ", "M", "C", "P">>,
           <<"V", "i", "t", "a", "l", "F", "l", "o", "w", " ", "M", "C", "P">>,
           <<"G", "i", "t", "L", "a", "b", " ", "M", "C", "P", " ", "S", "w", "i", "f", "t">>,
           <<"A", "W", " ", "C", "o", "n", "t", "e", "x", "t", " ", "T", "o", "o", "l">>,
           <<"D", "a", "t", "e", "U", "t", "i", "l", " ", "S", "w", "i", "f", "t">>,
           <<"W", "i", "s", "p", "r", " ", "F", "l", "o", "w", " ", "R", "e", "a", "d", "e", "r">>,
           <<"S", "w", "i", "f", "t", " ", "M", "i", "g", "r", "a", "t", "i", "o", "n">>,
           <<"O", "p", "e", "n", " ", "S", "o", "u", "r", "c", "e", " ", "T", "o", "o", "l", "s">>,
           <<"O", "p", "e", "n", " ", "T", "i", "m", "e", " ", "C", "h", "a", "t">> >>]

\* line 84: the tags that mark client work
CLIENT_WORK_TAGS == <<"mediahuis", "client", "billable">>

\* lines 65-66, 70-71, 78-79: pattern.lower() in text, text already lower-cased
AnyPatternIn(patterns, text) ==
    \E i \in DOMAIN patterns : Contains(text, Lower(patterns[i]))

\* lines 61-88
is_client_work(project_name, phase_data) ==
    IF AnyPatternIn(CLIENT_WORK_PATTERNS["projects"], Lower(project_name)) THEN TRUE
    ELSE IF AnyPatternIn(SIDE_PROJECT_PATTERNS["projects"], Lower(project_name)) THEN FALSE
    ELSE /\ Truthy(phase_data)
         /\ \/ AnyPatternIn(CLIENT_WORK_PATTERNS["folders"],
                            Lower(Get(phase_data[1], "description", <<>>)))
            \/ \E i \in DOMAIN Get(phase_data[1], "tags", <<>>) :
                   phase_data[1]["tags"][i] \in Range(CLIENT_WORK_TAGS)

\* line 97: the phases recalculate_hours classifies
IsRecalculated(phase) == phase["category"] \in {"client_work", "side_project"}

\* lines 96-105: the loop from phase i on; acc holds the phases and the two sums
RECURSIVE RecalculateFrom(_, _)
RecalculateFrom(acc, i) ==
    IF i > Len(acc.phases) THEN acc
    ELSE LET phase == acc.phases[i]
         IN  IF ~IsRecalculated(phase) THEN RecalculateFrom(acc, i + 1)
             ELSE IF is_client_work(Get(phase, "projectName", <<>>), Some(phase))
             THEN RecalculateFrom(
                      [acc EXCEPT !.billable_minutes = @ + phase["durationMinutes"],
                                  !.phases[i] = Put(phase, "category", "client_work")],
                      i + 1)
             ELSE RecalculateFrom(
                      [acc EXCEPT !.side_project_minutes = @ + phase["durationMinutes"],
                                  !.phases[i] = Put(phase, "category", "side_project")],
                      i + 1)

\* lines 104-107: the two rounded totals once the loop has left acc
RoundedTotals(acc) ==
    [phases |-> acc.phases,
     billable_minutes |-> acc.billable_minutes,
     side_project_minutes |-> acc.side_project_minutes,
     billable_hours |-> RoundHours(acc.billable_minutes),
     side_project_hours |-> RoundHours(acc.side_project_minutes)]

\* lines 90-107: the phases as the loop leaves them and the two rounded totals
recalculate_hours(timeline_phases) ==
    RoundedTotals(RecalculateFrom([phases |-> timeline_phases,
                                   billable_minutes |-> 0,
                                   side_project_minutes |-> 0], 1))

\* lines 137-143: a commit that names a project gets its category
CategorizedCommit(commit) ==
    IF Get(commit, "project", <<>>) # <<>>
    THEN Put(commit, "category",
             IF is_client_work(commit["project"], None) THEN "client" ELSE "personal")
    ELSE commit

\* lines 122-143: gitlabActivity with its commits categorized
CategorizedGitlab(gitlab) ==
    IF "commits" \in DOMAIN gitlab
    THEN Put(gitlab, "commits",
             [i \in DOMAIN gitlab["commits"] |-> CategorizedCommit(gitlab["commits"][i])])
    ELSE gitlab

\* lines 146-149
BinaryClientId(billable_hours) ==
    IF billable_hours > 0 THEN "mediahuis" ELSE "personal"

\* lines 116-151: the record and the locals once recalculate_hours has
\* returned hours
AfterRecalculation(timesheet_data, hours) ==
    LET phased == IF "timelinePhases" \in DOMAIN timesheet_data
                  THEN Put(timesheet_data, "timelinePhases", hours.phases)
                  ELSE timesheet_data
        summed == Put(phased, "timeSummary",
                      Put(Put(phased["timeSummary"], "billableHours", hours.billable_hours),
                          "sideProjectHours", hours.side_project_hours))
        committed == IF "gitlabActivity" \in DOMAIN summed
                     THEN Put(summed, "gitlabActivity",
                              CategorizedGitlab(summed["gitlabActivity"]))
                     ELSE summed
    IN  [data |-> Put(committed, "clientId",
                      BinaryClientId(hours.billable_hours)),
         billable_minutes |-> hours.billable_minutes,
         side_project_minutes |-> hours.side_project_minutes]

\* lines 109-151: the record after the call (the phase dicts are mutated in
\* place; a record without timelinePhases gets none) and the call's locals
update_timesheet_categorization(timesheet_data) ==
    AfterRecalculation(
        timesheet_data,
        recalculate_hours(Get(timesheet_data, "timelinePhases", <<>>)))


(***************************************************************************)
(* SpecBinary: update_timesheet_categorization applied to a daily record,  *)
(* and applied again to its own output                                     *)
(***************************************************************************)

BinaryDurations == {0, 2, 20}

\* nothing to match; a client project; a side project worked on in a client
\* folder; a client tag
BinaryTexts ==
    { <<>>,
      [projectName |-> <<"C", "H", "A", "M", "E", "L", "E", "O", "N", " ", "x">>],
      [projectName |-> <<"G", "i", "t", " ", "M", "C", "P">>, description |-> <<"i", "n", " ", "M", "E", "H", "U", "-", "a", "p", "p">>],
      [tags |-> <<"x", "client">>] }

BinaryPhases ==
    { [category |-> c, durationMinutes |-> m] @@ t :
        c \in {"client_work", "side_project", "meeting"},
        m \in BinaryDurations, t \in BinaryTexts }

\* gitlabActivity: absent, or with a commit that names a project and one that
\* does not
BinaryGitlab ==
    Optional("gitlabActivity",
             {[projectsWorkedOn |-> << <<"G", "i", "t", " ", "M", "C", "P">> >>,
               commits |-> << [project |-> <<"C", "H", "A", "M", "E", "L", "E", "O", "N", " ", "x">>], [message |-> "m"] >>]})

BinaryRecords ==
    { [timelinePhases |-> phases,
       timeSummary |-> [billableHours |-> 0, sideProjectHours |-> 0]] @@ g :
        phases \in SeqsUpTo(BinaryPhases, MaxPhases), g \in BinaryGitlab }

\* the rule store of the multi-client engine with one non-default rule that
\* carries the project, folder and tag patterns of the binary variant
DegenerateStore ==
    [clients |->
        ("mediahuis" :> Client(Detection(CLIENT_WORK_PATTERNS["projects"],
                                         CLIENT_WORK_PATTERNS["folders"],
                                         <<>>, CLIENT_WORK_TAGS)))
        @@ ("personal" :> PersonalClient),
     detectionPriority |-> <<"mediahuis", "personal">>,
     settings |-> [defaultClient |-> "personal"]]

\* config holds the store the variant is compared with; the variant reads none
InitBinary ==
    /\ config = DegenerateStore
    /\ data \in BinaryRecords
    /\ input = data
    /\ locals = NoLocals
    /\ runs = 0
    /\ call = None
    /\ file = None

\* lines 206-210: one call on the record
Categorize ==
    /\ runs < MaxRuns
    /\ \E out \in {update_timesheet_categorization(data)} :
           /\ data' = out.data
           /\ locals' = [client_minutes |-> [billable |-> out.billable_minutes,
                                             side_project |-> out.side_project_minutes],
                         client_hours |-> <<>>,
                         error |-> "none"]
    /\ input' = data
    /\ runs' = runs + 1
    /\ UNCHANGED <<config, call, file>>

NextBinary == Categorize

SpecBinary == InitBinary /\ [][NextBinary]_vars

\* the phases the latest call of the binary variant classified
Recalculated == { i \in DOMAIN Before : IsRecalculated(Before[i]) }

\* the multi-client update of the record the latest call was given
MultiClientResult == update_timesheet_with_multi_client(DegenerateStore, input).data

\* C24: the binary classifier is the degenerate case of the multi-client one.
\* A phase the binary variant classifies becomes client_work exactly when
\* detect_client_for_work under the store with the single rule "mediahuis"
\* returns that rule; and the call leaves the categories, billableHours and
\* sideProjectHours that the multi-client update leaves for that store.
C24_BinaryIsDegenerateCase ==
    runs > 0 =>
        /\ \A i \in Recalculated :
               After[i]["category"] = "client_work"
                   <=> detect_client_for_work(DegenerateStore,
                                              Get(Before[i], "projectName", <<>>),
                                              Some(Before[i]), None) = "mediahuis"
        /\ \A i \in DOMAIN After :
               After[i]["category"] = MultiClientResult["timelinePhases"][i]["category"]
        /\ Tenths(data["timeSummary"]["billableHours"]) =
               MultiClientResult["timeSummary"]["billableHours"]
        /\ data["timeSummary"]["sideProjectHours"] =
               MultiClientResult["timeSummary"]["sideProjectHours"]

\* C28: update_timesheet_categorization sets clientId to "mediahuis" exactly
\* when some client_work or side_project phase with positive durationMinutes
\* is classified as client work, and to "personal" otherwise.
C28_BinaryClientId ==
    runs > 0 =>
        data["clientId"] =
            IF \E i \in Recalculated :
                   /\ Before[i]["durationMinutes"] > 0
                   /\ is_client_work(Get(Before[i], "projectName", <<>>), Some(Before[i]))
            THEN "mediahuis" ELSE "personal"

====
